---- MODULE Spec2Model ----
(***************************************************************************)
(* A model of the wasm-builder encoder (src/src/{types,instr,sections,     *)
(* module}.rs).                                                            *)
(*                                                                         *)
(* Bytes are naturals 0..255, byte strings are sequences of bytes.  An     *)
(* Option<T> is a sequence of length 0 (None) or 1 (Some).  A Rust String  *)
(* is the sequence of its chars (Unicode scalar values).                   *)
(*                                                                         *)
(* Every encoder that writes into a Vec<u8> scratch buffer is a pure       *)
(* function of its argument and is modelled by an operator that returns    *)
(*   [out   |-> the bytes the call appended to the writer,                 *)
(*    ret   |-> the usize the call returned (0 for () results),            *)
(*    panic |-> TRUE when the call unwound through panic!/assert!]         *)
(* so that the count a call returns and the bytes it wrote stay two        *)
(* separate things, as they are in the code.                               *)
(*                                                                         *)
(* Three specifications:                                                   *)
(*   Spec      one run of Module::encode on a module drawn from Modules,   *)
(*             one step per write to the caller's sink, which takes each   *)
(*             slice whole or fails;                                       *)
(*   SpecShort the same run on a writer that may also make short writes;   *)
(*   SpecUnit  one call of a crate-internal encoder on an input drawn by   *)
(*             InitUnit.                                                   *)
(***************************************************************************)
EXTENDS Integers, Sequences, FiniteSets, TLC

VARIABLES
    module,     \* the Module being encoded (&self)
    pc,         \* position of Module::encode
    pending,    \* writes the current section encoder still has to issue
    sink,       \* bytes the caller's writer holds
    sinkErr,    \* Option: the error the writer returned from a failed write
    result,     \* what Module::encode returned
    frames,     \* section frames built so far: the header arguments and data
    writes,     \* number of write calls made on the caller's writer
    shortsLeft, \* short writes the caller's writer may still make
    input,      \* SpecUnit: the call, [fn, arg]
    output,     \* SpecUnit: the call's [out, ret, panic]
    applied     \* SpecUnit: the call has been made

vars ==
    <<module, pc, pending, sink, sinkErr, result, frames, writes, shortsLeft,
      input, output, applied>>

(***************************************************************************)
(* Bounds of the model.                                                    *)
(***************************************************************************)
\* elements per non-empty collection of a generated module: 1..MaxElems
MaxElems == 2
\* nesting depth of generated block-structured instructions
MaxDepth == 2
\* chars per generated name
MaxNameLen == 2
\* alignment exponents of generated memory arguments: 0..MaxAlign
MaxAlign == 2
\* integers 0..MaxExhaustive (and their negatives) are all drawn as LEB128 inputs
MaxExhaustive == 300
\* short writes a writer makes during one Module::encode
MaxShort == 1

(***************************************************************************)
(* Byte-string helpers.                                                    *)
(***************************************************************************)
RECURSIVE Concat(_)
Concat(ss) ==
    IF ss = <<>> THEN <<>> ELSE Head(ss) \o Concat(Tail(ss))

Some(x) == <<x>>
None == <<>>

\* Vec<u8> as Write: write appends the whole slice and returns its length.
Wrote(bytes) == [out |-> bytes, ret |-> Len(bytes), panic |-> FALSE]

\* a; b with `length = a?; length += b?` (a panic in a skips b)
Then(a, b) ==
    IF a.panic THEN a
    ELSE [out |-> a.out \o b.out, ret |-> IF b.panic THEN 0 ELSE a.ret + b.ret,
          panic |-> b.panic]

\* a call whose returned count is dropped (`f(...)?;`)
Discard(a) == [out |-> a.out, ret |-> 0, panic |-> a.panic]

Panicked == [out |-> <<>>, ret |-> 0, panic |-> TRUE]

RECURSIVE ThenAll(_)
ThenAll(rs) ==
    IF rs = <<>> THEN Wrote(<<>>) ELSE Then(Head(rs), ThenAll(Tail(rs)))

(***************************************************************************)
(* types.rs: primitives.                                                   *)
(***************************************************************************)
\* A u32, i32 or i64 of the program can be wider than an integer of the
\* model: it is held as [hi, mid, lo], the number hi * 2^48 + mid * 2^24 + lo
\* with mid and lo in 0..2^24-1 and hi carrying the sign.
Limb == 2^24

\* `val as u64`, `val as i64` of a value that fits an integer of the model
ToWide(n) ==
    [hi |-> IF n < 0 THEN -1 ELSE 0, mid |-> (n \div Limb) % Limb, lo |-> n % Limb]

\* low_bits_of_u64 / low_bits_of_i64: val & 0x7f
WideLow7(v) == v.lo % 128

\* val >>= 7: logical on a u64, arithmetic on an i64 (floor division)
WideShr7(v) ==
    [hi |-> v.hi \div 128,
     mid |-> (v.mid \div 128) + (v.hi % 128) * (Limb \div 128),
     lo |-> (v.lo \div 128) + (v.mid % 128) * (Limb \div 128)]

WideIsZero(v) == v.hi = 0 /\ v.mid = 0 /\ v.lo = 0

WideIsMinusOne(v) == v.hi = -1 /\ v.mid = Limb - 1 /\ v.lo = Limb - 1

\* a variant that sets the continuation bit by testing val before the
\* shift instead of after it
RECURSIVE Leb128UnsignedWide_testfirst(_)
Leb128UnsignedWide_testfirst(v) ==
    LET byte == IF WideIsZero(v) THEN WideLow7(v) ELSE WideLow7(v) + \h80
    IN  IF WideIsZero(WideShr7(v)) THEN <<byte>>
        ELSE <<byte>> \o Leb128UnsignedWide_testfirst(WideShr7(v))

\* leb128::write::unsigned: 7 bits per byte, low group first, 0x80 on all
\* bytes but the last, stops when the remaining value is zero.
RECURSIVE Leb128UnsignedWide(_)
Leb128UnsignedWide(v) ==
    IF WideIsZero(WideShr7(v)) THEN <<WideLow7(v)>>
    ELSE <<WideLow7(v) + \h80>> \o Leb128UnsignedWide(WideShr7(v))

Leb128Unsigned(val) == Leb128UnsignedWide(ToWide(val))

\* a variant that stops as soon as the rest is 0 or -1, without looking at
\* the sign bit of the byte just taken
RECURSIVE Leb128SignedWide_nosign(_)
Leb128SignedWide_nosign(v) ==
    LET rest == WideShr7(v)
    IN  IF WideIsZero(rest) \/ WideIsMinusOne(rest) THEN <<WideLow7(v)>>
        ELSE <<WideLow7(v) + \h80>> \o Leb128SignedWide_nosign(rest)

\* leb128::write::signed: val >>= 7 is an arithmetic shift (floor division);
\* done when the rest is 0 with bit 6 clear, or -1 with bit 6 set.
RECURSIVE Leb128SignedWide(_)
Leb128SignedWide(v) ==
    LET byte == WideLow7(v)
        rest == WideShr7(v)
        done == \/ WideIsZero(rest) /\ byte < \h40
                \/ WideIsMinusOne(rest) /\ byte >= \h40
    IN  IF done THEN <<byte>> ELSE <<byte + \h80>> \o Leb128SignedWide(rest)

Leb128Signed(val) == Leb128SignedWide(ToWide(val))

\* the asserts: (32f32 / 7.0).ceil() = 5, (64f32 / 7.0).ceil() = 10
Checked(bytes, max) ==
    [out |-> bytes, ret |-> IF Len(bytes) <= max THEN Len(bytes) ELSE 0,
     panic |-> ~(Len(bytes) <= max)]

\* encode_u32, encode_i32, encode_i64 of a value held as [hi, mid, lo]
encode_u32_wide(v) == Checked(Leb128UnsignedWide(v), 5)

encode_i32_wide(v) == Checked(Leb128SignedWide(v), 5)

encode_i64_wide(v) == Checked(Leb128SignedWide(v), 10)

encode_u32(val) == encode_u32_wide(ToWide(val))

encode_i32(val) == encode_i32_wide(ToWide(val))

encode_i64(val) == encode_i64_wide(ToWide(val))

\* to_le_bytes; a float is given by its IEEE 754 bit pattern written as
\* bytes, most significant first (1.0f32 = 0x3F800000 is <<63, 128, 0, 0>>)
LeBytes(bits) == [k \in 1..Len(bits) |-> bits[Len(bits) + 1 - k]]

encode_f32(bits) == Wrote(LeBytes(bits))

encode_f64(bits) == Wrote(LeBytes(bits))

\* a variant that leaves the count prefix out of the returned length
encode_vec_uncounted(bytes, size) ==
    [out |-> encode_u32(size).out \o bytes, ret |-> Len(bytes), panic |-> FALSE]

encode_vec(bytes, size) == Then(encode_u32(size), Wrote(bytes))

\* char::encode_utf8: the UTF-8 bytes of one Unicode scalar value
Utf8Char(c) ==
    IF c < \h80 THEN <<c>>
    ELSE IF c < \h800 THEN <<\hC0 + (c \div 64), \h80 + (c % 64)>>
    ELSE IF c < \h10000 THEN
        <<\hE0 + (c \div 4096), \h80 + ((c \div 64) % 64), \h80 + (c % 64)>>
    ELSE <<\hF0 + (c \div 262144), \h80 + ((c \div 4096) % 64),
           \h80 + ((c \div 64) % 64), \h80 + (c % 64)>>

\* str::as_bytes
AsBytes(str) == Concat([i \in 1..Len(str) |-> Utf8Char(str[i])])

\* str::chars().count()
CharsCount(str) == Len(str)

encode_name(str) == encode_vec(AsBytes(str), CharsCount(str))

encode_val_type(ty) ==
    CASE ty = "I32" -> Wrote(<<\h7F>>)
      [] ty = "I64" -> Wrote(<<\h7E>>)
      [] ty = "F32" -> Wrote(<<\h7D>>)
      [] ty = "F64" -> Wrote(<<\h7C>>)

encode_result_type(types) ==
    LET buf == ThenAll([i \in 1..Len(types) |-> encode_val_type(types[i])])
    IN  IF buf.panic THEN Panicked
        ELSE Discard(encode_vec(buf.out, Len(types)))

\* a variant that writes the flag 0x01 but forgets the maximum
LimitsEncode_nomax(lim) ==
    IF lim.max # None
    THEN Discard(ThenAll(<<Wrote(<<\h01>>), encode_u32(lim.min)>>))
    ELSE Discard(ThenAll(<<Wrote(<<\h00>>), encode_u32(lim.min)>>))

\* Limits::encode; lim = [min, max: Option]
LimitsEncode(lim) ==
    IF lim.max # None
    THEN Discard(ThenAll(<<Wrote(<<\h01>>), encode_u32(lim.min), encode_u32(lim.max[1])>>))
    ELSE Discard(ThenAll(<<Wrote(<<\h00>>), encode_u32(lim.min)>>))

FunctionTypeEncode(ft) ==
    Discard(ThenAll(<<Wrote(<<\h60>>),
                      encode_result_type(ft.parameter_types),
                      encode_result_type(ft.return_types)>>))

MemoryTypeEncode(mt) == LimitsEncode(mt.lim)

TableTypeEncode(tt) == Discard(Then(Wrote(<<\h70>>), LimitsEncode(tt.lim)))

\* a variant with the two mutability bytes swapped
GlobalTypeEncode_swapped(gt) ==
    Discard(Then(encode_val_type(gt.ty),
                 IF gt.mutable THEN Wrote(<<\h00>>) ELSE Wrote(<<\h01>>)))

GlobalTypeEncode(gt) ==
    Discard(Then(encode_val_type(gt.ty),
                 IF gt.mutable THEN Wrote(<<\h01>>) ELSE Wrote(<<\h00>>)))

(***************************************************************************)
(* instr.rs.  An Instruction is a record [op |-> <variant name>, ...] with  *)
(* the variant's fields; enum values are their names as strings; a Literal *)
(* is [kind, val] for integers and [kind, bits] for floats, bits being the *)
(* bytes of the IEEE 754 bit pattern.  The `ty: BlockType` field of Block,  *)
(* Loop and If is named blockty: TLC compares the fields of two records by *)
(* name, and the other variants' ty is an enum.                            *)
(***************************************************************************)
\* a variant that writes the type index as an unsigned LEB128
BlockTypeEncode_unsigned(bt) ==
    CASE bt.kind = "Empty" -> Wrote(<<\h40>>)
      [] bt.kind = "Type" -> encode_val_type(bt.ty)
      [] bt.kind = "TypeIdx" -> encode_u32(bt.idx)

\* BlockType::encode; `*idx as i64` of a u32 is the same non-negative number
BlockTypeEncode(bt) ==
    CASE bt.kind = "Empty" -> Wrote(<<\h40>>)
      [] bt.kind = "Type" -> encode_val_type(bt.ty)
      [] bt.kind = "TypeIdx" -> encode_i64(bt.idx)

\* a variant that writes the offset before the alignment
MemoryArgumentEncode_swapped(mem) ==
    Then(encode_u32(mem.offset), encode_u32(mem.alignment))

MemoryArgumentEncode(mem) ==
    Then(encode_u32(mem.alignment), encode_u32(mem.offset))

ByMemoryType(ty, int, long, float, double) ==
    CASE ty = "Int" -> int
      [] ty = "Long" -> long
      [] ty = "Float" -> float
      [] ty = "Double" -> double

ByIntegerType(ty, int, long) ==
    CASE ty = "Int" -> int
      [] ty = "Long" -> long

ByFloatType(ty, float, double) ==
    CASE ty = "Float" -> float
      [] ty = "Double" -> double

\* match (a, signed) over a two-valued enum a and a bool
BySigned(isFirst, signed, fs, fu, ss, su) ==
    IF isFirst THEN (IF signed THEN fs ELSE fu) ELSE (IF signed THEN ss ELSE su)

\* The opcode match of Instruction::Load: None where the arm is panic!()
\* a variant without the panic arms: a sub-storage the type cannot have
\* falls back to the plain load of the type
LoadOpcode_total(ty, storage) ==
    CASE ty = "Int" ->
            IF storage # None /\ storage[1][2] # "Int" THEN
                CASE storage[1][2] = "Byte" ->
                        IF storage[1][1] THEN Some(\h2C) ELSE Some(\h2D)
                  [] storage[1][2] = "Short" ->
                        IF storage[1][1] THEN Some(\h2E) ELSE Some(\h2F)
            ELSE Some(\h28)
      [] ty = "Long" ->
            IF storage # None THEN
                CASE storage[1][2] = "Byte" ->
                        IF storage[1][1] THEN Some(\h30) ELSE Some(\h31)
                  [] storage[1][2] = "Short" ->
                        IF storage[1][1] THEN Some(\h32) ELSE Some(\h33)
                  [] storage[1][2] = "Int" ->
                        IF storage[1][1] THEN Some(\h34) ELSE Some(\h35)
            ELSE Some(\h29)
      [] ty = "Float" -> Some(\h2A)
      [] ty = "Double" -> Some(\h2B)

LoadOpcode(ty, storage) ==
    CASE ty = "Int" ->
            IF storage # None THEN
                CASE storage[1][2] = "Byte" ->
                        IF storage[1][1] THEN Some(\h2C) ELSE Some(\h2D)
                  [] storage[1][2] = "Short" ->
                        IF storage[1][1] THEN Some(\h2E) ELSE Some(\h2F)
                  [] storage[1][2] = "Int" -> None
            ELSE Some(\h28)
      [] ty = "Long" ->
            IF storage # None THEN
                CASE storage[1][2] = "Byte" ->
                        IF storage[1][1] THEN Some(\h30) ELSE Some(\h31)
                  [] storage[1][2] = "Short" ->
                        IF storage[1][1] THEN Some(\h32) ELSE Some(\h33)
                  [] storage[1][2] = "Int" ->
                        IF storage[1][1] THEN Some(\h34) ELSE Some(\h35)
            ELSE Some(\h29)
      [] ty = "Float" -> IF storage # None THEN None ELSE Some(\h2A)
      [] ty = "Double" -> IF storage # None THEN None ELSE Some(\h2B)

\* The opcode match of Instruction::Store: None where the arm is panic!()
StoreOpcode(ty, storage) ==
    CASE ty = "Int" ->
            IF storage # None THEN
                CASE storage[1] = "Byte" -> Some(\h3A)
                  [] storage[1] = "Short" -> Some(\h3B)
                  [] storage[1] = "Int" -> None
            ELSE Some(\h36)
      [] ty = "Long" ->
            IF storage # None THEN
                CASE storage[1] = "Byte" -> Some(\h3C)
                  [] storage[1] = "Short" -> Some(\h3D)
                  [] storage[1] = "Int" -> Some(\h3E)
            ELSE Some(\h37)
      [] ty = "Float" -> IF storage # None THEN None ELSE Some(\h38)
      [] ty = "Double" -> IF storage # None THEN None ELSE Some(\h39)

\* The single-byte arms EqualZero .. Extend: None where the arm is panic!()
NumericOpcode(i) ==
    CASE i.op = "EqualZero" -> Some(ByIntegerType(i.ty, \h45, \h50))
      [] i.op = "Equal" -> Some(ByMemoryType(i.ty, \h46, \h51, \h5B, \h61))
      [] i.op = "NotEqual" -> Some(ByMemoryType(i.ty, \h47, \h52, \h5C, \h62))
      [] i.op = "LessThanInt" ->
            Some(BySigned(i.ty = "Int", i.signed, \h48, \h49, \h53, \h54))
      [] i.op = "GreaterThanInt" ->
            Some(BySigned(i.ty = "Int", i.signed, \h4A, \h4B, \h55, \h56))
      [] i.op = "LessOrEqualInt" ->
            Some(BySigned(i.ty = "Int", i.signed, \h4C, \h4D, \h57, \h58))
      [] i.op = "GreaterOrEqualInt" ->
            Some(BySigned(i.ty = "Int", i.signed, \h4E, \h4F, \h59, \h5A))
      [] i.op = "LessThanFloat" -> Some(ByFloatType(i.ty, \h5D, \h63))
      [] i.op = "GreaterThanFloat" -> Some(ByFloatType(i.ty, \h5E, \h64))
      [] i.op = "LessOrEqualFloat" -> Some(ByFloatType(i.ty, \h5F, \h65))
      [] i.op = "GreaterOrEqualFloat" -> Some(ByFloatType(i.ty, \h60, \h66))
      [] i.op = "CountLeadingZero" -> Some(ByIntegerType(i.ty, \h67, \h79))
      [] i.op = "CountTrailingZero" -> Some(ByIntegerType(i.ty, \h68, \h7A))
      [] i.op = "CountOnes" -> Some(ByIntegerType(i.ty, \h69, \h7B))
      [] i.op = "Add" -> Some(ByMemoryType(i.ty, \h6A, \h7C, \h92, \hA0))
      [] i.op = "Subtract" -> Some(ByMemoryType(i.ty, \h6B, \h7D, \h93, \hA1))
      [] i.op = "Multiply" -> Some(ByMemoryType(i.ty, \h6C, \h7E, \h94, \hA2))
      [] i.op = "IntDivision" ->
            Some(BySigned(i.ty = "Int", i.signed, \h6D, \h6E, \h7F, \h80))
      [] i.op = "FloatDivision" -> Some(ByFloatType(i.ty, \h95, \hA3))
      [] i.op = "Remainder" ->
            Some(BySigned(i.ty = "Int", i.signed, \h6F, \h70, \h81, \h82))
      [] i.op = "And" -> Some(ByIntegerType(i.ty, \h71, \h83))
      [] i.op = "Or" -> Some(ByIntegerType(i.ty, \h72, \h84))
      [] i.op = "Xor" -> Some(ByIntegerType(i.ty, \h73, \h85))
      [] i.op = "ShiftLeft" -> Some(ByIntegerType(i.ty, \h74, \h86))
      [] i.op = "ShiftRight" ->
            Some(BySigned(i.ty = "Int", i.signed, \h75, \h76, \h87, \h88))
      [] i.op = "LeftRotation" -> Some(ByIntegerType(i.ty, \h77, \h78))
      [] i.op = "RightRotation" -> Some(ByIntegerType(i.ty, \h89, \h8A))
      [] i.op = "Absolute" -> Some(ByFloatType(i.ty, \h8B, \h99))
      [] i.op = "Negate" -> Some(ByFloatType(i.ty, \h8C, \h9A))
      [] i.op = "Ceil" -> Some(ByFloatType(i.ty, \h8D, \h9B))
      [] i.op = "Floor" -> Some(ByFloatType(i.ty, \h8E, \h9C))
      [] i.op = "Truncate" -> Some(ByFloatType(i.ty, \h8F, \h9D))
      [] i.op = "Nearest" -> Some(ByFloatType(i.ty, \h90, \h9E))
      [] i.op = "SquareRoot" -> Some(ByFloatType(i.ty, \h91, \h9F))
      [] i.op = "Minimum" -> Some(ByFloatType(i.ty, \h96, \hA4))
      [] i.op = "Maximum" -> Some(ByFloatType(i.ty, \h97, \hA5))
      [] i.op = "CopySign" -> Some(ByFloatType(i.ty, \h98, \hA6))
      [] i.op = "IntWrap" -> Some(\hA7)
      [] i.op = "IntExtend" -> Some(IF i.signed THEN \hAC ELSE \hAD)
      [] i.op = "IntTruncate" ->
            Some(ByIntegerType(i.ty,
                    BySigned(i.float = "Float", i.signed, \hA8, \hA9, \hAA, \hAB),
                    BySigned(i.float = "Float", i.signed, \hAE, \hAF, \hB0, \hB1)))
      [] i.op = "Convert" ->
            Some(ByFloatType(i.ty,
                    BySigned(i.int = "Int", i.signed, \hB2, \hB3, \hB4, \hB5),
                    BySigned(i.int = "Int", i.signed, \hB7, \hB8, \hB9, \hBA)))
      [] i.op = "FloatDemote" -> Some(\hB6)
      [] i.op = "FloatPromote" -> Some(\hBB)
      [] i.op = "IntReinterpret" -> Some(\hBC)
      [] i.op = "LongReinterpret" -> Some(\hBD)
      [] i.op = "FloatReinterpret" -> Some(\hBE)
      [] i.op = "DoubleReinterpret" -> Some(\hBF)
      [] i.op = "Extend" ->
            IF i.ty = "Int"
            THEN CASE i.base = "Byte" -> Some(\hC0)
                   [] i.base = "Short" -> Some(\hC1)
                   [] i.base = "Int" -> None
            ELSE CASE i.base = "Byte" -> Some(\hC2)
                   [] i.base = "Short" -> Some(\hC3)
                   [] i.base = "Int" -> Some(\hC4)

\* Instruction::SaturateTruncate: the count of the 0xFC write is dropped
\* (`writer.write(&[0xFC])?;`), the match's write is the returned value.
SaturateTruncateEncode(i) ==
    Then(Discard(Wrote(<<\hFC>>)),
         Wrote(<<ByIntegerType(i.ty,
                    BySigned(i.float = "Float", i.signed, \h00, \h01, \h02, \h03),
                    BySigned(i.float = "Float", i.signed, \h04, \h05, \h06, \h07))>>))

ConstEncode(literal) ==
    CASE literal.kind = "Int" -> Then(Wrote(<<\h41>>), encode_i32(literal.val))
      [] literal.kind = "Long" -> Then(Wrote(<<\h42>>), encode_i64(literal.val))
      [] literal.kind = "Float" -> Then(Wrote(<<\h43>>), encode_f32(literal.bits))
      [] literal.kind = "Double" -> Then(Wrote(<<\h44>>), encode_f64(literal.bits))

\* opcode byte followed by one u32 index
WithIndex(opcode, idx) == Then(Wrote(<<opcode>>), encode_u32(idx))

\* a variant that gives encode_vec the length of the buffer as the count
BranchTableEncode_bytecount(i) ==
    LET buf == ThenAll([k \in 1..Len(i.labels) |-> encode_u32(i.labels[k])])
    IN  IF buf.panic THEN Then(Wrote(<<\h0E>>), Panicked)
        ELSE ThenAll(<<Wrote(<<\h0E>>),
                       encode_vec(buf.out, Len(buf.out)),
                       encode_u32(i.operand)>>)

BranchTableEncode(i) ==
    LET buf == ThenAll([k \in 1..Len(i.labels) |-> encode_u32(i.labels[k])])
    IN  IF buf.panic THEN Then(Wrote(<<\h0E>>), Panicked)
        ELSE ThenAll(<<Wrote(<<\h0E>>),
                       encode_vec(buf.out, Len(i.labels)),
                       encode_u32(i.operand)>>)

RECURSIVE InstructionEncode(_), EncodeEach(_)

\* `for instr in instrs { length += instr.encode(writer)?; }`
\* a variant that walks the instructions from the last to the first
EncodeEach_reversed(instrs) ==
    IF instrs = <<>> THEN Wrote(<<>>)
    ELSE Then(EncodeEach(Tail(instrs)), InstructionEncode(Head(instrs)))

EncodeEach(instrs) ==
    IF instrs = <<>> THEN Wrote(<<>>)
    ELSE Then(InstructionEncode(Head(instrs)), EncodeEach(Tail(instrs)))

\* a variant that writes the else marker only for a non-empty reject branch
IfEncode_skipempty(i) ==
    ThenAll(<<Wrote(<<\h04>>), BlockTypeEncode(i.blockty),
              EncodeEach(i.accept_instrs),
              IF i.reject_instrs # None /\ i.reject_instrs # Some(<<>>)
              THEN Then(Wrote(<<\h05>>), EncodeEach(i.reject_instrs[1]))
              ELSE Wrote(<<>>),
              Wrote(<<\h0B>>)>>)

\* the arm Instruction::If of Instruction::encode
IfEncode(i) ==
    ThenAll(<<Wrote(<<\h04>>), BlockTypeEncode(i.blockty),
              EncodeEach(i.accept_instrs),
              IF i.reject_instrs # None
              THEN Then(Wrote(<<\h05>>), EncodeEach(i.reject_instrs[1]))
              ELSE Wrote(<<>>),
              Wrote(<<\h0B>>)>>)

InstructionEncode(i) ==
    CASE i.op = "Unreachable" -> Wrote(<<\h00>>)
      [] i.op = "NOP" -> Wrote(<<\h01>>)
      [] i.op = "Block" ->
            ThenAll(<<Wrote(<<\h02>>), BlockTypeEncode(i.blockty),
                      EncodeEach(i.instrs), Wrote(<<\h0B>>)>>)
      [] i.op = "Loop" ->
            ThenAll(<<Wrote(<<\h03>>), BlockTypeEncode(i.blockty),
                      EncodeEach(i.instrs), Wrote(<<\h0B>>)>>)
      [] i.op = "If" -> IfEncode(i)
      [] i.op = "Branch" -> WithIndex(\h0C, i.idx)
      [] i.op = "BranchIf" -> WithIndex(\h0D, i.idx)
      [] i.op = "BranchTable" -> BranchTableEncode(i)
      [] i.op = "Return" -> Wrote(<<\h0F>>)
      [] i.op = "Call" -> WithIndex(\h10, i.idx)
      [] i.op = "CallIndirect" -> Then(WithIndex(\h11, i.idx), Wrote(<<\h00>>))
      [] i.op = "Drop" -> Wrote(<<\h1A>>)
      [] i.op = "Select" -> Wrote(<<\h1B>>)
      [] i.op = "LocalGet" -> WithIndex(\h20, i.idx)
      [] i.op = "LocalSet" -> WithIndex(\h21, i.idx)
      [] i.op = "LocalTee" -> WithIndex(\h22, i.idx)
      [] i.op = "GlobalGet" -> WithIndex(\h23, i.idx)
      [] i.op = "GlobalSet" -> WithIndex(\h24, i.idx)
      [] i.op = "Load" ->
            LET opcode == LoadOpcode(i.ty, i.storage)
            IN  IF opcode = None THEN Panicked
                ELSE Then(Wrote(opcode), MemoryArgumentEncode(i.mem))
      [] i.op = "Store" ->
            LET opcode == StoreOpcode(i.ty, i.storage)
            IN  IF opcode = None THEN Panicked
                ELSE Then(Wrote(opcode), MemoryArgumentEncode(i.mem))
      [] i.op = "MemorySize" -> Wrote(<<\h3F, \h00>>)
      [] i.op = "MemoryGrow" -> Wrote(<<\h40, \h00>>)
      [] i.op = "Const" -> ConstEncode(i.literal)
      [] i.op = "SaturateTruncate" -> SaturateTruncateEncode(i)
      [] OTHER ->
            LET opcode == NumericOpcode(i)
            IN  IF opcode = None THEN Panicked ELSE Wrote(opcode)

\* Expr::encode; an Expr is the sequence of its instructions
ExprEncode(expr) == Then(EncodeEach(expr), Wrote(<<\h0B>>))

(***************************************************************************)
(* sections.rs.  A Desc is [kind |-> "Function", idx] | [kind |-> "Table", *)
(* table] | [kind |-> "Memory", mem] | [kind |-> "Global", global].        *)
(***************************************************************************)
\* #[repr(u8)] enum Section { Custom = 0, Type, Import, ... }
\* a variant numbering the sections without a slot for Start's own id
SectionId_shifted(name) ==
    CASE name = "Custom" -> 0
      [] name = "Type" -> 1
      [] name = "Import" -> 2
      [] name = "Function" -> 3
      [] name = "Table" -> 4
      [] name = "Memory" -> 5
      [] name = "Global" -> 6
      [] name = "Export" -> 7
      [] name = "Start" -> 7
      [] name = "Element" -> 8
      [] name = "Code" -> 9
      [] name = "Data" -> 10

SectionId(name) ==
    CASE name = "Custom" -> 0
      [] name = "Type" -> 1
      [] name = "Import" -> 2
      [] name = "Function" -> 3
      [] name = "Table" -> 4
      [] name = "Memory" -> 5
      [] name = "Global" -> 6
      [] name = "Export" -> 7
      [] name = "Start" -> 8
      [] name = "Element" -> 9
      [] name = "Code" -> 10
      [] name = "Data" -> 11

\* `x as u32` of a usize: every length of the model is far below 2^32,
\* where the cast keeps the value
AsU32(n) == n

DescEncode(desc) ==
    CASE desc.kind = "Function" -> Discard(Then(Wrote(<<\h00>>), encode_u32(desc.idx)))
      [] desc.kind = "Table" -> Discard(Then(Wrote(<<\h01>>), TableTypeEncode(desc.table)))
      [] desc.kind = "Memory" -> Discard(Then(Wrote(<<\h02>>), MemoryTypeEncode(desc.mem)))
      [] desc.kind = "Global" -> Discard(Then(Wrote(<<\h03>>), GlobalTypeEncode(desc.global)))

ImportEncode(import) ==
    Discard(ThenAll(<<encode_name(import.module), encode_name(import.name),
                      DescEncode(import.desc)>>))

GlobalEncode(global) ==
    Discard(Then(GlobalTypeEncode(global.ty), ExprEncode(global.init)))

\* a variant that encodes the description before the name
ExportEncode_descfirst(export) ==
    Discard(Then(DescEncode(export.desc), encode_name(export.name)))

ExportEncode(export) ==
    Discard(Then(encode_name(export.name), DescEncode(export.desc)))

ElementEncode(element) ==
    LET buf == ThenAll([k \in 1..Len(element.init) |-> encode_u32(element.init[k])])
    IN  Discard(ThenAll(<<encode_u32(element.table), ExprEncode(element.offset),
                          IF buf.panic THEN Panicked
                          ELSE encode_vec(buf.out, AsU32(Len(element.init)))>>))

LocalEncode(local) ==
    Discard(Then(encode_u32(local.n), encode_val_type(local.ty)))

\* Function::encode: returns the count of encode_vec plus the count of the body
FunctionEncode(func) ==
    LET buf == ThenAll([k \in 1..Len(func.locals) |-> LocalEncode(func.locals[k])])
    IN  IF buf.panic THEN Panicked
        ELSE Then(encode_vec(buf.out, AsU32(Len(func.locals))), ExprEncode(func.body))

DataEncode(data) ==
    Discard(ThenAll(<<encode_u32(data.mem), ExprEncode(data.offset),
                      encode_vec(data.init, AsU32(Len(data.init)))>>))

\* encode_code: the entry is encoded into a scratch buffer, then its returned
\* count and the buffer are written
encode_code(func) ==
    LET buf == FunctionEncode(func)
    IN  IF buf.panic THEN Panicked
        ELSE Discard(Then(encode_u32(AsU32(buf.ret)), Wrote(buf.out)))

(***************************************************************************)
(* A section encoder first builds the whole frame in scratch buffers, which *)
(* may panic, and then writes to the caller's writer.  SectionFrame is what *)
(* it has when it reaches encode_section_header: the id, the size argument  *)
(* and the data it will write.                                              *)
(***************************************************************************)
NoFrame == [panic |-> TRUE, id |-> 0, size |-> 0, data |-> <<>>]

\* the body the encode_*_section functions share: elems are the results of
\* the element encoders on buf, n is section.len()
VecSectionFrame(name, elems, n) ==
    LET buf == ThenAll(elems)
        data == encode_vec(buf.out, AsU32(n))
    IN  IF buf.panic \/ data.panic THEN NoFrame
        ELSE [panic |-> FALSE, id |-> SectionId(name),
              size |-> AsU32(data.ret), data |-> data.out]

\* std::mem::size_of::<Vec<u8>>(): pointer, capacity and length, each one
\* usize of usize_bytes bytes on the target
SizeOfVec(usize_bytes) == 3 * usize_bytes

\* buf holds the name and the data; the size handed to
\* encode_section_header is std::mem::size_of_val(&buf) with buf a Vec<u8>
encode_custom_section(name, data, usize_bytes) ==
    LET buf == Then(encode_name(name), Wrote(data))
    IN  IF buf.panic THEN NoFrame
        ELSE [panic |-> FALSE, id |-> SectionId("Custom"),
              size |-> AsU32(SizeOfVec(usize_bytes)), data |-> buf.out]

encode_type_section(section) ==
    VecSectionFrame("Type",
        [k \in 1..Len(section) |-> FunctionTypeEncode(section[k])], Len(section))

encode_import_section(section) ==
    VecSectionFrame("Import",
        [k \in 1..Len(section) |-> ImportEncode(section[k])], Len(section))

encode_function_section(section) ==
    VecSectionFrame("Function",
        [k \in 1..Len(section) |-> encode_u32(section[k])], Len(section))

encode_table_section(section) ==
    VecSectionFrame("Table",
        [k \in 1..Len(section) |-> TableTypeEncode(section[k])], Len(section))

encode_memory_section(section) ==
    VecSectionFrame("Memory",
        [k \in 1..Len(section) |-> MemoryTypeEncode(section[k])], Len(section))

encode_global_section(section) ==
    VecSectionFrame("Global",
        [k \in 1..Len(section) |-> GlobalEncode(section[k])], Len(section))

encode_export_section(section) ==
    VecSectionFrame("Export",
        [k \in 1..Len(section) |-> ExportEncode(section[k])], Len(section))

\* a variant copied from encode_export_section with its section id kept
encode_start_section_as_export(start) ==
    LET buf == encode_u32(start)
    IN  IF buf.panic THEN NoFrame
        ELSE [panic |-> FALSE, id |-> SectionId("Export"),
              size |-> AsU32(buf.ret), data |-> buf.out]

encode_start_section(start) ==
    LET buf == encode_u32(start)
    IN  IF buf.panic THEN NoFrame
        ELSE [panic |-> FALSE, id |-> SectionId("Start"),
              size |-> AsU32(buf.ret), data |-> buf.out]

encode_element_section(section) ==
    VecSectionFrame("Element",
        [k \in 1..Len(section) |-> ElementEncode(section[k])], Len(section))

encode_code_section(section) ==
    VecSectionFrame("Code",
        [k \in 1..Len(section) |-> encode_code(section[k])], Len(section))

encode_data_section(section) ==
    VecSectionFrame("Data",
        [k \in 1..Len(section) |-> DataEncode(section[k])], Len(section))

\* encode_section_header followed by writer.write(&data): the writes issued
\* to the caller's writer, in order.  leb128 writes the size byte by byte.
\* a section encoder called on a Vec<u8>: every write succeeds, nothing is
\* written when it panics
SectionOutput(frame) ==
    IF frame.panic THEN Panicked
    ELSE Discard(Wrote(<<frame.id>> \o encode_u32(frame.size).out \o frame.data))

\* [bytes, all |-> the call is write_all, as leb128 makes it]
FrameWrites(frame) ==
    LET size == encode_u32(frame.size).out
    IN  <<[bytes |-> <<frame.id>>, all |-> FALSE]>>
            \o [k \in 1..Len(size) |-> [bytes |-> <<size[k]>>, all |-> TRUE]]
            \o <<[bytes |-> frame.data, all |-> FALSE]>>

(***************************************************************************)
(* module.rs: Module::encode as a state machine.                           *)
(***************************************************************************)
MAGIC == <<\h00, \h61, \h73, \h6D>>
VERSION == <<\h01, \h00, \h00, \h00>>

\* Module::new()
\* a variant that starts out with a start function set
NewModule_started ==
    [types |-> <<>>, imports |-> <<>>, functions |-> <<>>, tables |-> <<>>,
     memory |-> <<>>, globals |-> <<>>, exports |-> <<>>, start |-> Some(0),
     elements |-> <<>>, code |-> <<>>, data |-> <<>>]

NewModule ==
    [types |-> <<>>, imports |-> <<>>, functions |-> <<>>, tables |-> <<>>,
     memory |-> <<>>, globals |-> <<>>, exports |-> <<>>, start |-> None,
     elements |-> <<>>, code |-> <<>>, data |-> <<>>]

\* the positions of Module::encode, in program order
Stages ==
    <<"magic", "version", "types", "imports", "functions", "tables", "memory",
      "globals", "exports", "start", "elements", "code", "data", "return", "done">>

SectionStages == {Stages[k] : k \in 3..13}

NextStage(stage) ==
    Stages[(CHOOSE k \in 1..(Len(Stages) - 1) : Stages[k] = stage) + 1]

\* the guards `if self.X.len() != 0` and `if let Some(start) = self.start`
\* a variant whose tables guard looks at the memory collection
Present_miscopied(m, stage) ==
    CASE stage = "types" -> Len(m.types) # 0
      [] stage = "imports" -> Len(m.imports) # 0
      [] stage = "functions" -> Len(m.functions) # 0
      [] stage = "tables" -> Len(m.memory) # 0
      [] stage = "memory" -> Len(m.memory) # 0
      [] stage = "globals" -> Len(m.globals) # 0
      [] stage = "exports" -> Len(m.exports) # 0
      [] stage = "start" -> m.start # None
      [] stage = "elements" -> Len(m.elements) # 0
      [] stage = "code" -> Len(m.code) # 0
      [] stage = "data" -> Len(m.data) # 0

Present(m, stage) ==
    CASE stage = "types" -> Len(m.types) # 0
      [] stage = "imports" -> Len(m.imports) # 0
      [] stage = "functions" -> Len(m.functions) # 0
      [] stage = "tables" -> Len(m.tables) # 0
      [] stage = "memory" -> Len(m.memory) # 0
      [] stage = "globals" -> Len(m.globals) # 0
      [] stage = "exports" -> Len(m.exports) # 0
      [] stage = "start" -> m.start # None
      [] stage = "elements" -> Len(m.elements) # 0
      [] stage = "code" -> Len(m.code) # 0
      [] stage = "data" -> Len(m.data) # 0

\* the caller's `impl Write`: a write call takes the whole slice, or fails
\* with some io::Error and takes nothing, or, while the writer has short
\* writes left, takes only the first n bytes and returns Ok(n)
ErrorKinds == {"BrokenPipe", "Other"}

WriteOutcomes(bytes) ==
    {[n |-> Len(bytes), err |-> None]}
        \cup {[n |-> 0, err |-> Some(k)] : k \in ErrorKinds}
        \cup (IF shortsLeft > 0
              THEN {[n |-> k, err |-> None] : k \in 0..(Len(bytes) - 1)}
              ELSE {})

\* w.write_all(&[byte]) of leb128::write: Ok(0) from write is the error
\* WriteZero, Ok(1) and Err(e) are passed on
WriteAll(outcome) ==
    IF outcome.err = None /\ outcome.n = 0
    THEN [n |-> 0, err |-> Some("WriteZero")]
    ELSE outcome

\* the `?` after a write: Some(e) when the function returns Err(e) at once
\* a variant that drops the error, as `let _ = writer.write(..)` would
Question_ignored(outcome) == None

Question(outcome) == outcome.err

Running == [status |-> "Running", err |-> None]

Returns(status, err) ==
    /\ result' = [status |-> status, err |-> err]
    /\ pc' = "done"
    /\ pending' = <<>>

\* one write call on the caller's writer with outcome o
SinkWrite(bytes, o) ==
    /\ sink' = sink \o SubSeq(bytes, 1, o.n)
    /\ sinkErr' = IF o.err # None THEN o.err ELSE sinkErr
    /\ writes' = writes + 1
    /\ shortsLeft' = IF o.err = None /\ o.n < Len(bytes)
                     THEN shortsLeft - 1 ELSE shortsLeft

\* writer.write(&MAGIC)?
WriteMagic ==
    /\ pc = "magic"
    /\ \E o \in WriteOutcomes(MAGIC) :
          /\ SinkWrite(MAGIC, o)
          /\ IF Question(o) # None
             THEN Returns("Err", Question(o))
             ELSE pc' = "version" /\ UNCHANGED <<result, pending>>
    /\ UNCHANGED <<module, frames, input, output, applied>>

\* writer.write(&VERSION)?
WriteVersion ==
    /\ pc = "version"
    /\ \E o \in WriteOutcomes(VERSION) :
          /\ SinkWrite(VERSION, o)
          /\ IF Question(o) # None
             THEN Returns("Err", Question(o))
             ELSE pc' = "types" /\ UNCHANGED <<result, pending>>
    /\ UNCHANGED <<module, frames, input, output, applied>>

\* `if <guard> { sections::encode_X_section(writer, ...)?; }` up to the
\* first write of the section encoder
\* a variant whose section encoders write to the caller's writer as they
\* go: a byte has reached it when an element encoder panics
SectionStep_streamed(stage, frame) ==
    /\ pc = stage
    /\ pending = <<>>
    /\ IF ~Present(module, stage)
       THEN pc' = NextStage(stage) /\ UNCHANGED <<pending, result, frames, sink>>
       ELSE IF frame.panic
       THEN Returns("Panic", None) /\ sink' = Append(sink, frame.id) /\ UNCHANGED frames
       ELSE /\ pending' = FrameWrites(frame)
            /\ frames' = Append(frames, frame)
            /\ UNCHANGED <<pc, result, sink>>
    /\ UNCHANGED <<module, sinkErr, writes, shortsLeft, input, output, applied>>

SectionStep(stage, frame) ==
    /\ pc = stage
    /\ pending = <<>>
    /\ IF ~Present(module, stage)
       THEN pc' = NextStage(stage) /\ UNCHANGED <<pending, result, frames>>
       ELSE IF frame.panic
       THEN Returns("Panic", None) /\ UNCHANGED frames
       ELSE /\ pending' = FrameWrites(frame)
            /\ frames' = Append(frames, frame)
            /\ UNCHANGED <<pc, result>>
    /\ UNCHANGED <<module, sink, sinkErr, writes, shortsLeft, input, output, applied>>

EncodeTypeSection == SectionStep("types", encode_type_section(module.types))

EncodeImportSection == SectionStep("imports", encode_import_section(module.imports))

EncodeFunctionSection ==
    SectionStep("functions", encode_function_section(module.functions))

EncodeTableSection == SectionStep("tables", encode_table_section(module.tables))

EncodeMemorySection == SectionStep("memory", encode_memory_section(module.memory))

EncodeGlobalSection == SectionStep("globals", encode_global_section(module.globals))

EncodeExportSection == SectionStep("exports", encode_export_section(module.exports))

EncodeStartSection ==
    SectionStep("start",
        IF module.start # None THEN encode_start_section(module.start[1]) ELSE NoFrame)

EncodeElementSection ==
    SectionStep("elements", encode_element_section(module.elements))

EncodeCodeSection == SectionStep("code", encode_code_section(module.code))

EncodeDataSection == SectionStep("data", encode_data_section(module.data))

\* the next write of encode_section_header / writer.write(&data)
WriterWrite ==
    /\ pc \in SectionStages
    /\ pending # <<>>
    /\ \E o \in WriteOutcomes(Head(pending).bytes) :
          /\ SinkWrite(Head(pending).bytes, o)
          /\ IF Question(IF Head(pending).all THEN WriteAll(o) ELSE o) # None
             THEN Returns("Err", Question(IF Head(pending).all THEN WriteAll(o) ELSE o))
             ELSE /\ pending' = Tail(pending)
                  /\ pc' = IF Tail(pending) = <<>> THEN NextStage(pc) ELSE pc
                  /\ UNCHANGED result
    /\ UNCHANGED <<module, frames, input, output, applied>>

\* Ok(())
ReturnOk ==
    /\ pc = "return"
    /\ result' = [status |-> "Ok", err |-> None]
    /\ pc' = "done"
    /\ UNCHANGED <<module, pending, sink, sinkErr, frames, writes, shortsLeft,
                   input, output, applied>>

(***************************************************************************)
(* Inputs: the values the public data types admit, drawn from small sets.  *)
(***************************************************************************)
ValTypes == <<"I32", "I64", "F32", "F64">>

ValTypeAt(k) == ValTypes[(k % 4) + 1]

\* 'a', 'd', U+00E9 (2 UTF-8 bytes), U+20AC (3), U+1F600 (4)
CharA == \h61
CharD == \h64
CharEAcute == \hE9
CharEuro == \h20AC
CharGrin == \h1F600

LocalGet(idx) == [op |-> "LocalGet", idx |-> idx]
ConstInt(val) == [op |-> "Const", literal |-> [kind |-> "Int", val |-> val]]
Nop == [op |-> "NOP"]
SatTrunc == [op |-> "SaturateTruncate", ty |-> "Long", float |-> "Double", signed |-> FALSE]
BlockOf(ty, instrs) == [op |-> "Block", blockty |-> ty, instrs |-> instrs]
EmptyBlockType == [kind |-> "Empty"]

\* i32.load32_s does not exist: the Load arm for it is panic!()
ImpossibleLoad ==
    [op |-> "Load", mem |-> [alignment |-> 2, offset |-> 0], ty |-> "Int",
     storage |-> Some(<<TRUE, "Int">>)]

\* the k-th element of each collection of a generated module
TypeAt(k) ==
    IF k = 1
    THEN [parameter_types |-> <<"F32", "F32">>, return_types |-> <<"F32">>]
    ELSE [parameter_types |-> [i \in 1..(k - 2) |-> ValTypeAt(i)],
          return_types |-> [i \in 1..k |-> ValTypeAt(i + k)]]

LimitsAt(k) == [min |-> k - 1, max |-> IF k % 2 = 1 THEN Some(k) ELSE None]

GlobalTypeAt(k) == [ty |-> ValTypeAt(k - 1), mutable |-> (k % 2 = 0)]

DescAt(k) ==
    CASE k % 4 = 1 -> [kind |-> "Function", idx |-> k - 1]
      [] k % 4 = 2 -> [kind |-> "Global", global |-> GlobalTypeAt(k)]
      [] k % 4 = 3 -> [kind |-> "Memory", mem |-> [lim |-> LimitsAt(k)]]
      [] k % 4 = 0 -> [kind |-> "Table", table |-> [lim |-> LimitsAt(k)]]

ImportAt(k) ==
    [module |-> [i \in 1..k |-> CharA],
     name |-> IF k % 2 = 1 THEN <<CharEAcute>> ELSE <<CharEuro, CharA>>,
     desc |-> DescAt(k + 1)]

ExportAt(k) ==
    [name |-> IF k = 1 THEN <<CharA, CharD, CharD>> ELSE [i \in 1..k |-> CharGrin],
     desc |-> DescAt(k)]

GlobalAt(k, bad) ==
    [ty |-> GlobalTypeAt(k),
     init |-> IF bad THEN <<ImpossibleLoad>> ELSE <<ConstInt(41 + k)>>]

ElementAt(k, bad) ==
    [table |-> 0,
     offset |-> IF bad THEN <<Nop, ImpossibleLoad>> ELSE <<ConstInt(64 * (k - 1))>>,
     init |-> [i \in 1..k |-> 100 * (i - 1)]]

FunctionAt(k, bad) ==
    [locals |-> [i \in 1..(k - 1) |-> [n |-> 100 * i, ty |-> ValTypeAt(i)]],
     body |-> IF bad THEN <<BlockOf(EmptyBlockType, <<Nop, ImpossibleLoad>>)>>
              ELSE IF k = 1
              THEN <<LocalGet(0), LocalGet(1), [op |-> "Add", ty |-> "Float"]>>
              ELSE <<BlockOf(EmptyBlockType, <<LocalGet(k), SatTrunc>>), Nop>>]

DataAt(k, bad) ==
    [mem |-> 0,
     offset |-> IF bad THEN <<ImpossibleLoad>> ELSE <<ConstInt(-k)>>,
     init |-> [i \in 1..(IF k = 1 THEN 3 ELSE 70 * k) |-> (i * k) % 256]]

\* the module whose collections named in has hold n elements each and the
\* others none; the last element of collection bad, if any, holds an
\* instruction that cannot be encoded
GenModule(has, n, bad) ==
    [types |-> IF "types" \in has THEN [k \in 1..n |-> TypeAt(k)] ELSE <<>>,
     imports |-> IF "imports" \in has THEN [k \in 1..n |-> ImportAt(k)] ELSE <<>>,
     functions |-> IF "functions" \in has THEN [k \in 1..n |-> 127 * k - 127] ELSE <<>>,
     tables |-> IF "tables" \in has
                THEN [k \in 1..n |-> [lim |-> LimitsAt(k + 1)]] ELSE <<>>,
     memory |-> IF "memory" \in has
                THEN [k \in 1..n |-> [lim |-> LimitsAt(k)]] ELSE <<>>,
     globals |-> IF "globals" \in has
                 THEN [k \in 1..n |-> GlobalAt(k, bad = "globals" /\ k = n)] ELSE <<>>,
     exports |-> IF "exports" \in has THEN [k \in 1..n |-> ExportAt(k)] ELSE <<>>,
     start |-> IF "start" \in has THEN Some(128 * (n - 1)) ELSE None,
     elements |-> IF "elements" \in has
                  THEN [k \in 1..n |-> ElementAt(k, bad = "elements" /\ k = n)] ELSE <<>>,
     code |-> IF "code" \in has
              THEN [k \in 1..n |-> FunctionAt(k, bad = "code" /\ k = n)] ELSE <<>>,
     data |-> IF "data" \in has
              THEN [k \in 1..n |-> DataAt(k, bad = "data" /\ k = n)] ELSE <<>>]

Modules ==
    {NewModule}
        \cup {GenModule(has, n, "") : has \in SUBSET SectionStages, n \in 1..MaxElems}
        \cup {GenModule(SectionStages, n, bad) :
                n \in 1..MaxElems, bad \in {"globals", "elements", "code", "data"}}

NoOutput == [out |-> <<>>, ret |-> 0, panic |-> FALSE]

Init ==
    /\ module \in Modules
    /\ pc = "magic"
    /\ pending = <<>>
    /\ sink = <<>>
    /\ sinkErr = None
    /\ result = Running
    /\ frames = <<>>
    /\ writes = 0
    /\ shortsLeft = 0
    /\ input = [fn |-> "", arg |-> <<>>]
    /\ output = NoOutput
    /\ applied = FALSE

Next ==
    \/ WriteMagic
    \/ WriteVersion
    \/ EncodeTypeSection
    \/ EncodeImportSection
    \/ EncodeFunctionSection
    \/ EncodeTableSection
    \/ EncodeMemorySection
    \/ EncodeGlobalSection
    \/ EncodeExportSection
    \/ EncodeStartSection
    \/ EncodeElementSection
    \/ EncodeCodeSection
    \/ EncodeDataSection
    \/ WriterWrite
    \/ ReturnOk

Spec == Init /\ [][Next]_vars

\* Module::encode on a writer that may make short writes
ShortModules == {NewModule} \cup {GenModule(SectionStages, n, "") : n \in 1..MaxElems}

InitShort ==
    /\ module \in ShortModules
    /\ pc = "magic"
    /\ pending = <<>>
    /\ sink = <<>>
    /\ sinkErr = None
    /\ result = Running
    /\ frames = <<>>
    /\ writes = 0
    /\ shortsLeft = MaxShort
    /\ input = [fn |-> "", arg |-> <<>>]
    /\ output = NoOutput
    /\ applied = FALSE

SpecShort == InitShort /\ [][Next]_vars

(***************************************************************************)
(* SpecUnit: one call of a crate-internal encoder on a Vec<u8> writer.     *)
(***************************************************************************)
IntegerTypes == {"Int", "Long"}
FloatTypes == {"Float", "Double"}
MemoryTypes == {"Int", "Long", "Float", "Double"}
StorageTypes == {"Byte", "Short", "Int"}

\* u32 indices and offsets with 1-, 2- and 3-byte LEB128 encodings
Indices == {0, 1, 127, 128, 16384}

\* the variants EqualZero .. Extend, with every combination of their fields
NumericInstructions ==
    {[op |-> o, ty |-> t] :
        o \in {"EqualZero", "CountLeadingZero", "CountTrailingZero", "CountOnes",
               "And", "Or", "Xor", "ShiftLeft", "LeftRotation", "RightRotation"},
        t \in IntegerTypes}
    \cup {[op |-> o, ty |-> t] :
        o \in {"Equal", "NotEqual", "Add", "Subtract", "Multiply"}, t \in MemoryTypes}
    \cup {[op |-> o, ty |-> t, signed |-> b] :
        o \in {"LessThanInt", "GreaterThanInt", "LessOrEqualInt", "GreaterOrEqualInt",
               "IntDivision", "Remainder", "ShiftRight"},
        t \in IntegerTypes, b \in BOOLEAN}
    \cup {[op |-> o, ty |-> t] :
        o \in {"LessThanFloat", "GreaterThanFloat", "LessOrEqualFloat",
               "GreaterOrEqualFloat", "FloatDivision", "Absolute", "Negate", "Ceil",
               "Floor", "Truncate", "Nearest", "SquareRoot", "Minimum", "Maximum",
               "CopySign"},
        t \in FloatTypes}
    \cup {[op |-> o] :
        o \in {"IntWrap", "FloatDemote", "FloatPromote", "IntReinterpret",
               "LongReinterpret", "FloatReinterpret", "DoubleReinterpret"}}
    \cup {[op |-> "IntExtend", signed |-> b] : b \in BOOLEAN}
    \cup {[op |-> "IntTruncate", ty |-> t, float |-> f, signed |-> b] :
        t \in IntegerTypes, f \in FloatTypes, b \in BOOLEAN}
    \cup {[op |-> "Convert", ty |-> f, int |-> t, signed |-> b] :
        f \in FloatTypes, t \in IntegerTypes, b \in BOOLEAN}
    \cup {[op |-> "Extend", ty |-> t, base |-> s] : t \in IntegerTypes, s \in StorageTypes}

MemoryArguments ==
    {[alignment |-> a, offset |-> o] : a \in 0..MaxAlign, o \in {1, 300}}

LoadInstructions ==
    {[op |-> "Load", mem |-> m, ty |-> t, storage |-> s] :
        m \in MemoryArguments, t \in MemoryTypes,
        s \in {None} \cup {Some(<<b, st>>) : b \in BOOLEAN, st \in StorageTypes}}

StoreInstructions ==
    {[op |-> "Store", mem |-> m, ty |-> t, storage |-> s] :
        m \in MemoryArguments, t \in MemoryTypes,
        s \in {None} \cup {Some(st) : st \in StorageTypes}}

PlainInstructions ==
    {[op |-> o] :
        o \in {"Unreachable", "NOP", "Return", "Drop", "Select", "MemorySize", "MemoryGrow"}}
    \cup {[op |-> o, idx |-> x] :
        o \in {"Branch", "BranchIf", "Call", "CallIndirect", "LocalGet", "LocalSet",
               "LocalTee", "GlobalGet", "GlobalSet"},
        x \in Indices}
    \cup {[op |-> "BranchTable", labels |-> l, operand |-> x] :
        l \in {<<>>, <<1, 2>>, <<300, 0, 128>>}, x \in {0, 200}}
    \cup {[op |-> "Const", literal |-> [kind |-> k, val |-> v]] :
        k \in {"Int", "Long"}, v \in {0, 42, 63, 64, -1, -64, -65, 8192}}
    \cup {[op |-> "Const", literal |-> l] :
        l \in {[kind |-> "Float", bits |-> <<\h3F, \h80, \h00, \h00>>],
               [kind |-> "Float", bits |-> <<\h7F, \hC0, \h00, \h01>>],
               [kind |-> "Double", bits |-> <<\h3F, \hF0, 0, 0, 0, 0, 0, 0>>],
               [kind |-> "Double", bits |-> <<\hFF, \hF8, 0, 0, 0, 0, 0, \h2A>>]}}
    \cup {[op |-> "SaturateTruncate", ty |-> t, float |-> f, signed |-> b] :
        t \in IntegerTypes, f \in FloatTypes, b \in BOOLEAN}

BlockTypes ==
    {[kind |-> "Empty"]}
    \cup {[kind |-> "Type", ty |-> ValTypes[k]] : k \in 1..4}
    \cup {[kind |-> "TypeIdx", idx |-> x] : x \in {0, 63, 64, 200}}

\* the instructions generated inside block bodies
NestLeaves == {Nop, SatTrunc, LocalGet(128), [op |-> "MemorySize"], ImpossibleLoad}

\* block-structured instructions nested to depth d
RECURSIVE Nested(_)
Nested(d) ==
    IF d = 0 THEN NestLeaves
    ELSE LET inner == Nested(d - 1)
             bodies == {<<>>} \cup {<<x>> : x \in inner} \cup {<<Nop, x>> : x \in inner}
         IN  NestLeaves
             \cup {[op |-> "Block", blockty |-> t, instrs |-> b] :
                    t \in {EmptyBlockType, [kind |-> "Type", ty |-> "I32"],
                           [kind |-> "TypeIdx", idx |-> 64]},
                    b \in bodies}
             \cup {[op |-> "Loop", blockty |-> EmptyBlockType, instrs |-> b] : b \in bodies}
             \cup {[op |-> "If", blockty |-> EmptyBlockType, accept_instrs |-> b,
                    reject_instrs |-> r] :
                    b \in bodies, r \in {None, Some(<<>>), Some(<<SatTrunc>>)}}

\* every instruction drawn but the stores (whose storage field is an
\* Option<StorageType>, where a load's is an Option<(bool, StorageType)>)
\* If with every block type, with and without a reject branch
IfInstructions ==
    {[op |-> "If", blockty |-> t, accept_instrs |-> a, reject_instrs |-> r] :
        t \in BlockTypes,
        a \in {<<>>, <<Nop>>, <<LocalGet(128), [op |-> "Drop"]>>},
        r \in {None, Some(<<>>), Some(<<Nop>>), Some(<<[op |-> "Unreachable"], Nop>>)}}

Instructions ==
    NumericInstructions \cup LoadInstructions
        \cup PlainInstructions \cup IfInstructions
        \cup {[op |-> o, blockty |-> t, instrs |-> <<Nop>>] :
                o \in {"Block", "Loop"}, t \in BlockTypes}
        \cup Nested(MaxDepth)

Functions ==
    {[locals |-> l, body |-> b] :
        l \in {<<>>, <<[n |-> 1, ty |-> "I32"]>>,
              <<[n |-> 2, ty |-> "F64"], [n |-> 200, ty |-> "I64"]>>},
        b \in {<<>>, <<LocalGet(0), LocalGet(1), [op |-> "Add", ty |-> "Float"]>>}
                \cup {<<x>> : x \in Nested(MaxDepth)}}

Chars == {CharA, CharEAcute, CharEuro, CharGrin}

\* the strings of at most n chars
RECURSIVE StringsUpTo(_)
StringsUpTo(n) ==
    IF n = 0 THEN {<<>>}
    ELSE LET shorter == StringsUpTo(n - 1)
         IN  shorter \cup {Append(str, c) : str \in shorter, c \in Chars}

Names == StringsUpTo(MaxNameLen)

\* u32 values: the small ones, those around each change of encoded length,
\* and those from 2^31 to u32::MAX
U32Values ==
    {ToWide(n) : n \in 0..MaxExhaustive}
    \cup {ToWide(n) : n \in {16383, 16384, 2097151, 2097152, 268435455, 268435456,
                             2147483647}}
    \cup {[hi |-> 0, mid |-> m, lo |-> l] : m \in {128, 255}, l \in {0, 1, Limb - 1}}

\* i32 values: the small ones, those around each change of encoded length,
\* i32::MIN and i32::MAX
I32Values ==
    {ToWide(n) : n \in -MaxExhaustive..MaxExhaustive}
    \cup {ToWide(n) : n \in {8191, 8192, -8192, -8193, 1048575, 1048576, -1048576,
                             -1048577, 134217727, 134217728, -134217728, -134217729,
                             2147483647, -2147483647, -2147483647 - 1}}

\* i64 values: the i32 values and values of up to 64 bits, i64::MIN and
\* i64::MAX among them
I64Values ==
    I32Values
    \cup {[hi |-> h, mid |-> m, lo |-> l] :
            h \in {-32768, -16385, -16384, -129, -128, -1, 0, 127, 128, 16383, 16384,
                   32767},
            m \in {0, 1, Limb - 1}, l \in {0, Limb - 1}}

\* the sequences of 1..n elements of S
SeqsUpTo(S, n) == UNION {[1..k -> S] : k \in 1..n}

GlobalTypes == {[ty |-> ValTypes[k], mutable |-> b] : k \in 1..4, b \in BOOLEAN}

GlobalSections ==
    SeqsUpTo({[ty |-> gt, init |-> <<ConstInt(42)>>] : gt \in GlobalTypes}, MaxElems)

\* limits with and without a maximum, of one- and multi-byte LEB128 values,
\* the maximum also below the minimum
LimitsValues ==
    {[min |-> a, max |-> b] :
        a \in {0, 1, 128, 65536}, b \in {None, Some(0), Some(1), Some(200), Some(65536)}}

MemorySections ==
    SeqsUpTo({[lim |-> lim] : lim \in {[min |-> 0, max |-> Some(1)],
                                        [min |-> 1, max |-> None],
                                        [min |-> 300, max |-> Some(65536)]}}, MaxElems)

\* every block type without an index, and type indices around the values
\* whose unsigned LEB128 would be 0x40 or a value-type tag
BlockTypeValues ==
    BlockTypes
    \cup {[kind |-> "TypeIdx", idx |-> x] :
            x \in (0..MaxExhaustive) \cup {8191, 8192, 1048576, 2147483647}}

\* bodies and initializers handed to Expr::encode
Exprs ==
    {<<>>, <<SatTrunc>>, <<LocalGet(0), LocalGet(1), [op |-> "Add", ty |-> "Float"]>>}
        \cup {<<x>> : x \in Nested(MaxDepth)}
        \cup {<<x, Nop>> : x \in Nested(MaxDepth - 1)}

\* names and data (the bytes 1, 2, .., n) for a custom section, on targets
\* with 32 and 64 bit usize
CustomSections ==
    {[name |-> str, data |-> [k \in 1..n |-> k], usize_bytes |-> w] :
        str \in Names, n \in {0, 1, 2, 10, 22, 130}, w \in {4, 8}}

InitUnit ==
    /\ module = NewModule
    /\ pc = "done"
    /\ pending = <<>>
    /\ sink = <<>>
    /\ sinkErr = None
    /\ result = Running
    /\ frames = <<>>
    /\ writes = 0
    /\ shortsLeft = 0
    /\ \/ \E i \in Instructions : input = [fn |-> "Instruction::encode", arg |-> i]
       \/ \E i \in StoreInstructions : input = [fn |-> "Instruction::encode", arg |-> i]
       \/ \E f \in Functions : input = [fn |-> "encode_code", arg |-> f]
       \/ \E str \in Names : input = [fn |-> "encode_name", arg |-> str]
       \/ \E v \in U32Values : input = [fn |-> "encode_u32", arg |-> v]
       \/ \E v \in I32Values : input = [fn |-> "encode_i32", arg |-> v]
       \/ \E v \in I64Values : input = [fn |-> "encode_i64", arg |-> v]
       \/ \E lim \in LimitsValues : input = [fn |-> "Limits::encode", arg |-> lim]
       \/ \E lim \in LimitsValues :
             input = [fn |-> "MemoryType::encode", arg |-> [lim |-> lim]]
       \/ \E lim \in LimitsValues :
             input = [fn |-> "TableType::encode", arg |-> [lim |-> lim]]
       \/ \E section \in MemorySections :
             input = [fn |-> "encode_memory_section", arg |-> section]
       \/ \E bt \in BlockTypeValues : input = [fn |-> "BlockType::encode", arg |-> bt]
       \/ \E gt \in GlobalTypes : input = [fn |-> "GlobalType::encode", arg |-> gt]
       \/ \E start \in Indices \cup {2097152, 2147483647} :
             input = [fn |-> "encode_start_section", arg |-> start]
       \/ \E section \in GlobalSections :
             input = [fn |-> "encode_global_section", arg |-> section]
       \/ \E custom \in CustomSections :
             input = [fn |-> "encode_custom_section", arg |-> custom]
       \/ \E expr \in Exprs : input = [fn |-> "Expr::encode", arg |-> expr]
    /\ output = NoOutput
    /\ applied = FALSE

Call(fn, out) ==
    /\ ~applied
    /\ input.fn = fn
    /\ output' = out
    /\ applied' = TRUE
    /\ UNCHANGED <<module, pc, pending, sink, sinkErr, result, frames, writes,
                   shortsLeft, input>>

CallInstructionEncode == Call("Instruction::encode", InstructionEncode(input.arg))

CallEncodeCode == Call("encode_code", encode_code(input.arg))

CallEncodeName == Call("encode_name", encode_name(input.arg))

CallEncodeU32 == Call("encode_u32", encode_u32_wide(input.arg))

CallEncodeI32 == Call("encode_i32", encode_i32_wide(input.arg))

CallEncodeI64 == Call("encode_i64", encode_i64_wide(input.arg))

CallGlobalTypeEncode == Call("GlobalType::encode", GlobalTypeEncode(input.arg))

CallEncodeGlobalSection ==
    Call("encode_global_section", SectionOutput(encode_global_section(input.arg)))

CallLimitsEncode == Call("Limits::encode", LimitsEncode(input.arg))

CallMemoryTypeEncode == Call("MemoryType::encode", MemoryTypeEncode(input.arg))

CallTableTypeEncode == Call("TableType::encode", TableTypeEncode(input.arg))

CallEncodeMemorySection ==
    Call("encode_memory_section", SectionOutput(encode_memory_section(input.arg)))

CallEncodeStartSection ==
    Call("encode_start_section", SectionOutput(encode_start_section(input.arg)))

CallBlockTypeEncode == Call("BlockType::encode", BlockTypeEncode(input.arg))

CallEncodeCustomSection ==
    Call("encode_custom_section",
         SectionOutput(encode_custom_section(input.arg.name, input.arg.data,
                                             input.arg.usize_bytes)))

CallExprEncode == Call("Expr::encode", ExprEncode(input.arg))

NextUnit ==
    \/ CallInstructionEncode
    \/ CallEncodeCode
    \/ CallEncodeName
    \/ CallEncodeU32
    \/ CallEncodeI32
    \/ CallEncodeI64
    \/ CallLimitsEncode
    \/ CallMemoryTypeEncode
    \/ CallTableTypeEncode
    \/ CallEncodeMemorySection
    \/ CallBlockTypeEncode
    \/ CallGlobalTypeEncode
    \/ CallEncodeStartSection
    \/ CallEncodeGlobalSection
    \/ CallEncodeCustomSection
    \/ CallExprEncode

SpecUnit == InitUnit /\ [][NextUnit]_vars

(***************************************************************************)
(* Reading the output back: a decoder of the Wasm binary framing, used     *)
(* only to state the properties below.                                     *)
(***************************************************************************)
\* unsigned LEB128 at the head of b, at most k bytes long:
\* [val, n |-> bytes read, ok |-> a last byte was found]
RECURSIVE DecodeUnsigned(_, _)
DecodeUnsigned(b, k) ==
    IF b = <<>> \/ k = 0 THEN [val |-> 0, n |-> 0, ok |-> FALSE]
    ELSE IF b[1] < 128 THEN [val |-> b[1], n |-> 1, ok |-> TRUE]
    ELSE LET r == DecodeUnsigned(Tail(b), k - 1)
         IN  [val |-> (b[1] - 128) + 128 * r.val, n |-> r.n + 1, ok |-> r.ok]

DropFirst(b, n) == SubSeq(b, n + 1, Len(b))

IsPrefix(a, b) == Len(a) <= Len(b) /\ SubSeq(b, 1, Len(a)) = a

\* the section frames of b: id, LEB128 size, size bytes of payload; the last
\* one is marked incomplete when b ends inside it
RECURSIVE ParseFrames(_)
ParseFrames(b) ==
    IF b = <<>> THEN <<>>
    ELSE LET size == DecodeUnsigned(Tail(b), 4)
             rest == DropFirst(b, 1 + size.n)
         IN  IF ~size.ok \/ Len(rest) < size.val
             THEN <<[id |-> b[1], size |-> size.val, payload |-> rest, complete |-> FALSE]>>
             ELSE <<[id |-> b[1], size |-> size.val,
                     payload |-> SubSeq(rest, 1, size.val), complete |-> TRUE]>>
                  \o ParseFrames(DropFirst(rest, size.val))

\* the frames found in the sink behind the 8 bytes of magic and version
SinkFrames == ParseFrames(DropFirst(sink, 8))

\* the collection (or start field) a standard section id stands for
Collection(m, id) ==
    CASE id = 1 -> m.types
      [] id = 2 -> m.imports
      [] id = 3 -> m.functions
      [] id = 4 -> m.tables
      [] id = 5 -> m.memory
      [] id = 6 -> m.globals
      [] id = 7 -> m.exports
      [] id = 8 -> m.start
      [] id = 9 -> m.elements
      [] id = 10 -> m.code
      [] id = 11 -> m.data

StandardIds == 1..11

(***************************************************************************)
(* Claims checked under Spec.                                              *)
(***************************************************************************)
\* C1: every section frame Module::encode emits is id, LEB128(payload_len),
\* payload, with payload_len the exact number of payload bytes: the size
\* handed to encode_section_header is the length of the data written after
\* it, the data of a vector section starts with the count of its elements
\* (the start section's data is the bare index), every frame that is whole
\* in the sink reads back as the frame that was built, and after Ok the sink
\* is the prologue followed by exactly the frames built, all whole.
C1_SectionFraming ==
    LET parsed == SinkFrames
    IN  /\ \A k \in 1..Len(frames) :
              /\ frames[k].size = Len(frames[k].data)
              /\ LET count == DecodeUnsigned(frames[k].data, 4)
                 IN  /\ count.ok
                     /\ IF frames[k].id = 8
                        THEN count.val = module.start[1] /\ count.n = Len(frames[k].data)
                        ELSE count.val = Len(Collection(module, frames[k].id))
        /\ \A k \in 1..Len(parsed) :
              parsed[k].complete =>
                  /\ k <= Len(frames)
                  /\ parsed[k].id = frames[k].id
                  /\ parsed[k].size = Len(frames[k].data)
                  /\ parsed[k].payload = frames[k].data
        /\ result.status = "Ok" =>
              /\ Len(parsed) = Len(frames)
              /\ \A k \in 1..Len(parsed) : parsed[k].complete

\* C1 witness: encode returned Ok with all eleven sections framed, one of
\* them with a payload of 128 bytes or more (a two-byte size field)
C1_Witness ==
    /\ result.status = "Ok"
    /\ Len(SinkFrames) = 11
    /\ \E k \in 1..Len(SinkFrames) : SinkFrames[k].size >= 128

\* C3: the sink starts with the magic, then the version, then section frames
\* whose ids are standard ids in strictly increasing order (so each at most
\* once); the sink only ever grows at its end, so the order of the bytes is
\* the order of the writes.
C3_SinkOrdered ==
    LET parsed == SinkFrames
    IN  /\ IF Len(sink) <= 8 THEN IsPrefix(sink, MAGIC \o VERSION)
           ELSE IsPrefix(MAGIC \o VERSION, sink)
        /\ \A k \in 1..Len(parsed) : parsed[k].id \in StandardIds
        /\ \A j, k \in 1..Len(parsed) : j < k => parsed[j].id < parsed[k].id

C3_PrologueThenIncreasingIds ==
    [](C3_SinkOrdered) /\ [][IsPrefix(sink, sink')]_vars

\* C3 witness: all eleven frames are in the sink, ids 1 to 11 in order
C3_Witness ==
    /\ result.status = "Ok"
    /\ [k \in 1..Len(SinkFrames) |-> SinkFrames[k].id] = [k \in 1..11 |-> k]

\* C4: a frame with id C is in the sink only if collection C of the module is
\* non-empty (the start field set, for id 8), and once encode has returned Ok
\* every non-empty collection has its whole frame in the sink.
C4_FrameIffNonEmpty ==
    LET parsed == SinkFrames
    IN  \A id \in StandardIds :
            /\ (\E k \in 1..Len(parsed) : parsed[k].id = id)
                  => Collection(module, id) # <<>>
            /\ (result.status = "Ok" /\ Collection(module, id) # <<>>)
                  => \E k \in 1..Len(parsed) :
                        parsed[k].id = id /\ parsed[k].complete

\* C4 witness: Ok for a module with memories but no tables, and functions
\* but no start
C4_Witness ==
    /\ result.status = "Ok"
    /\ module.tables = <<>> /\ module.memory # <<>>
    /\ module.start = None /\ module.functions # <<>>
    /\ Len(SinkFrames) >= 2

\* C9: once a write on the sink has failed, encode has returned that very
\* error (and it returns Err only for a failed write), no further write call
\* is made, and the sink keeps the bytes it held before the failing write.
C9_FailedState ==
    /\ sinkErr # None => result = [status |-> "Err", err |-> sinkErr]
    /\ result.status = "Err" => sinkErr # None /\ result.err = sinkErr

C13_EmptyModule ==
    module = NewModule =>
        /\ frames = <<>>
        /\ IsPrefix(sink, <<\h00, \h61, \h73, \h6D, \h01, \h00, \h00, \h00>>)
        /\ result.status \in {"Running", "Ok", "Err"}
        /\ (pc = "done" /\ sinkErr = None) =>
              /\ result.status = "Ok"
              /\ sink = <<\h00, \h61, \h73, \h6D, \h01, \h00, \h00, \h00>>

\* C13 witness: encode of the empty module returned Ok after two writes
C13_Witness ==
    /\ module = NewModule
    /\ result.status = "Ok"
    /\ writes = 2
    /\ Len(sink) = 8

\* the module of the adder example: one type (f32, f32) -> f32, function 0 of
\* that type, its body local.get 0, local.get 1, f32.add, exported as "add"
AdderModule ==
    [types |-> <<[parameter_types |-> <<"F32", "F32">>, return_types |-> <<"F32">>]>>,
     imports |-> <<>>,
     functions |-> <<0>>,
     tables |-> <<>>, memory |-> <<>>, globals |-> <<>>,
     exports |-> <<[name |-> <<\h61, \h64, \h64>>, desc |-> [kind |-> "Function", idx |-> 0]]>>,
     start |-> None,
     elements |-> <<>>,
     code |-> <<[locals |-> <<>>,
                 body |-> <<[op |-> "LocalGet", idx |-> 0], [op |-> "LocalGet", idx |-> 1],
                            [op |-> "Add", ty |-> "Float"]>>]>>,
     data |-> <<>>]

AdderBytes ==
    <<\h00, \h61, \h73, \h6D, \h01, \h00, \h00, \h00,
      \h01, \h07, \h01, \h60, \h02, \h7D, \h7D, \h01, \h7D,
      \h03, \h02, \h01, \h00,
      \h07, \h07, \h01, \h03, \h61, \h64, \h64, \h00, \h00,
      \h0A, \h09, \h01, \h07, \h00, \h20, \h00, \h20, \h01, \h92, \h0B>>

\* C14: for a module with a type, a function, an export and a code entry
\* (and nothing else) whose encoding does not panic, once encode is done with
\* no write failed it has returned Ok and the sink holds the prologue and
\* exactly the whole frames 1, 3, 7 and 10, each with its size field equal to
\* its payload length; for the adder module the sink is then the 41 bytes of
\* the example, and before that a prefix of them.
C14_FunctionModule ==
    /\ (/\ \A id \in StandardIds :
              (Collection(module, id) # <<>>) = (id \in {1, 3, 7, 10})
        /\ pc = "done" /\ sinkErr = None) =>
          LET parsed == SinkFrames
          IN  /\ result.status = "Ok"
              /\ IsPrefix(<<\h00, \h61, \h73, \h6D, \h01, \h00, \h00, \h00>>, sink)
              /\ [k \in 1..Len(parsed) |-> parsed[k].id] = <<1, 3, 7, 10>>
              /\ \A k \in 1..Len(parsed) :
                    parsed[k].complete /\ parsed[k].size = Len(parsed[k].payload)
    /\ module = AdderModule =>
          /\ IsPrefix(sink, AdderBytes)
          /\ (pc = "done" /\ sinkErr = None) => result.status = "Ok" /\ sink = AdderBytes

\* C14 witness: encode of the adder module returned Ok with its 41 bytes
C14_Witness ==
    /\ module = AdderModule
    /\ result.status = "Ok"
    /\ Len(sink) = 41

(***************************************************************************)
(* The opcode tables of the Wasm core binary format, written out in opcode *)
(* order, and the Wasm instruction each variant of Instruction stands for. *)
(***************************************************************************)
IndexOf(seq, x) == CHOOSE k \in 1..Len(seq) : seq[k] = x

WasmType(ty) ==
    CASE ty = "Int" -> "i32"
      [] ty = "Long" -> "i64"
      [] ty = "Float" -> "f32"
      [] ty = "Double" -> "f64"

Sign(signed) == IF signed THEN "_s" ELSE "_u"

WasmIntCompare(t) ==
    [k \in 1..11 |-> t \o <<".eqz", ".eq", ".ne", ".lt_s", ".lt_u", ".gt_s", ".gt_u",
                           ".le_s", ".le_u", ".ge_s", ".ge_u">>[k]]

WasmFloatCompare(t) ==
    [k \in 1..6 |-> t \o <<".eq", ".ne", ".lt", ".gt", ".le", ".ge">>[k]]

WasmIntArithmetic(t) ==
    [k \in 1..18 |-> t \o <<".clz", ".ctz", ".popcnt", ".add", ".sub", ".mul", ".div_s",
                           ".div_u", ".rem_s", ".rem_u", ".and", ".or", ".xor", ".shl",
                           ".shr_s", ".shr_u", ".rotl", ".rotr">>[k]]

WasmFloatArithmetic(t) ==
    [k \in 1..14 |-> t \o <<".abs", ".neg", ".ceil", ".floor", ".trunc", ".nearest",
                           ".sqrt", ".add", ".sub", ".mul", ".div", ".min", ".max",
                           ".copysign">>[k]]

WasmConversions ==
    <<"i32.wrap_i64", "i32.trunc_f32_s", "i32.trunc_f32_u", "i32.trunc_f64_s",
      "i32.trunc_f64_u", "i64.extend_i32_s", "i64.extend_i32_u", "i64.trunc_f32_s",
      "i64.trunc_f32_u", "i64.trunc_f64_s", "i64.trunc_f64_u", "f32.convert_i32_s",
      "f32.convert_i32_u", "f32.convert_i64_s", "f32.convert_i64_u", "f32.demote_f64",
      "f64.convert_i32_s", "f64.convert_i32_u", "f64.convert_i64_s", "f64.convert_i64_u",
      "f64.promote_f32", "i32.reinterpret_f32", "i64.reinterpret_f64",
      "f32.reinterpret_i32", "f64.reinterpret_i64", "i32.extend8_s", "i32.extend16_s",
      "i64.extend8_s", "i64.extend16_s", "i64.extend32_s">>

\* the numeric instructions in opcode order: i32.eqz is 0x45, i64.extend32_s 0xC4
WasmNumeric ==
    WasmIntCompare("i32") \o WasmIntCompare("i64")
        \o WasmFloatCompare("f32") \o WasmFloatCompare("f64")
        \o WasmIntArithmetic("i32") \o WasmIntArithmetic("i64")
        \o WasmFloatArithmetic("f32") \o WasmFloatArithmetic("f64")
        \o WasmConversions

WasmNumericOpcode(mnemonic) == \h45 + IndexOf(WasmNumeric, mnemonic) - 1

\* the memory instructions in opcode order: i32.load is 0x28, i64.store32 0x3E
WasmMemory ==
    <<"i32.load", "i64.load", "f32.load", "f64.load", "i32.load8_s", "i32.load8_u",
      "i32.load16_s", "i32.load16_u", "i64.load8_s", "i64.load8_u", "i64.load16_s",
      "i64.load16_u", "i64.load32_s", "i64.load32_u", "i32.store", "i64.store",
      "f32.store", "f64.store", "i32.store8", "i32.store16", "i64.store8", "i64.store16",
      "i64.store32">>

WasmMemoryOpcode(mnemonic) == \h28 + IndexOf(WasmMemory, mnemonic) - 1

Suffix(op) ==
    CASE op = "EqualZero" -> ".eqz"
      [] op = "Equal" -> ".eq"
      [] op = "NotEqual" -> ".ne"
      [] op \in {"LessThanInt", "LessThanFloat"} -> ".lt"
      [] op \in {"GreaterThanInt", "GreaterThanFloat"} -> ".gt"
      [] op \in {"LessOrEqualInt", "LessOrEqualFloat"} -> ".le"
      [] op \in {"GreaterOrEqualInt", "GreaterOrEqualFloat"} -> ".ge"
      [] op = "CountLeadingZero" -> ".clz"
      [] op = "CountTrailingZero" -> ".ctz"
      [] op = "CountOnes" -> ".popcnt"
      [] op = "Add" -> ".add"
      [] op = "Subtract" -> ".sub"
      [] op = "Multiply" -> ".mul"
      [] op \in {"IntDivision", "FloatDivision"} -> ".div"
      [] op = "Remainder" -> ".rem"
      [] op = "And" -> ".and"
      [] op = "Or" -> ".or"
      [] op = "Xor" -> ".xor"
      [] op = "ShiftLeft" -> ".shl"
      [] op = "ShiftRight" -> ".shr"
      [] op = "LeftRotation" -> ".rotl"
      [] op = "RightRotation" -> ".rotr"
      [] op = "Absolute" -> ".abs"
      [] op = "Negate" -> ".neg"
      [] op = "Ceil" -> ".ceil"
      [] op = "Floor" -> ".floor"
      [] op = "Truncate" -> ".trunc"
      [] op = "Nearest" -> ".nearest"
      [] op = "SquareRoot" -> ".sqrt"
      [] op = "Minimum" -> ".min"
      [] op = "Maximum" -> ".max"
      [] op = "CopySign" -> ".copysign"

SignedOps ==
    {"LessThanInt", "GreaterThanInt", "LessOrEqualInt", "GreaterOrEqualInt",
     "IntDivision", "Remainder", "ShiftRight"}

ConversionOps ==
    {"IntWrap", "IntExtend", "IntTruncate", "Convert", "FloatDemote", "FloatPromote",
     "IntReinterpret", "LongReinterpret", "FloatReinterpret", "DoubleReinterpret",
     "Extend"}

OtherOps ==
    {"Unreachable", "NOP", "Block", "Loop", "If", "Branch", "BranchIf", "BranchTable",
     "Return", "Call", "CallIndirect", "Drop", "Select", "LocalGet", "LocalSet",
     "LocalTee", "GlobalGet", "GlobalSet", "Load", "Store", "MemorySize", "MemoryGrow",
     "Const", "SaturateTruncate"}

StorageBits(st) ==
    CASE st = "Byte" -> "8"
      [] st = "Short" -> "16"
      [] st = "Int" -> "32"

\* the Wasm instruction a comparison, arithmetic or conversion variant means
Mnemonic(i) ==
    CASE i.op = "IntWrap" -> "i32.wrap_i64"
      [] i.op = "IntExtend" -> "i64.extend_i32" \o Sign(i.signed)
      [] i.op = "IntTruncate" ->
            WasmType(i.ty) \o ".trunc_" \o WasmType(i.float) \o Sign(i.signed)
      [] i.op = "Convert" ->
            WasmType(i.ty) \o ".convert_" \o WasmType(i.int) \o Sign(i.signed)
      [] i.op = "FloatDemote" -> "f32.demote_f64"
      [] i.op = "FloatPromote" -> "f64.promote_f32"
      [] i.op = "IntReinterpret" -> "i32.reinterpret_f32"
      [] i.op = "LongReinterpret" -> "i64.reinterpret_f64"
      [] i.op = "FloatReinterpret" -> "f32.reinterpret_i32"
      [] i.op = "DoubleReinterpret" -> "f64.reinterpret_i64"
      [] i.op = "Extend" -> WasmType(i.ty) \o ".extend" \o StorageBits(i.base) \o "_s"
      [] i.op \in SignedOps -> WasmType(i.ty) \o Suffix(i.op) \o Sign(i.signed)
      [] OTHER -> WasmType(i.ty) \o Suffix(i.op)

\* the Wasm instruction a Load or Store means
MemoryMnemonic(i) ==
    IF i.op = "Load"
    THEN WasmType(i.ty) \o ".load"
            \o (IF i.storage = None THEN ""
                ELSE StorageBits(i.storage[1][2]) \o Sign(i.storage[1][1]))
    ELSE WasmType(i.ty) \o ".store"
            \o (IF i.storage = None THEN "" ELSE StorageBits(i.storage[1]))

IsIn(seq, x) == \E k \in 1..Len(seq) : seq[k] = x

\* the instruction's argument of the call this state is about
EncodedInstruction == applied /\ input.fn = "Instruction::encode"

(***************************************************************************)
(* Claims checked under SpecUnit.                                          *)
(***************************************************************************)
\* C2: the entry-size encode_code writes in front of a code entry is the
\* number of bytes that follow it, which are the locals vector and the body
\* Expr with its terminating 0x0B, for every function whose encoding does
\* not panic.
C2_EntrySizeCountsEntry ==
    (applied /\ input.fn = "encode_code" /\ ~output.panic) =>
        LET size == DecodeUnsigned(output.out, 4)
            entry == DropFirst(output.out, size.n)
        IN  /\ size.ok
            /\ entry = FunctionEncode(input.arg).out
            /\ entry[Len(entry)] = \h0B
            /\ size.val = Len(entry)

\* C5: a name is encoded as the unsigned LEB128 of the number of bytes of its
\* UTF-8 representation, followed by exactly those bytes.
C5_NameLengthInBytes ==
    (applied /\ input.fn = "encode_name") =>
        LET length == DecodeUnsigned(output.out, 4)
        IN  /\ ~output.panic
            /\ length.ok
            /\ length.val = Len(AsBytes(input.arg))
            /\ DropFirst(output.out, length.n) = AsBytes(input.arg)

\* C6: every comparison, arithmetic and conversion variant that stands for a
\* Wasm instruction is encoded as the one opcode byte the Wasm binary format
\* assigns to that instruction (i32.rotl 0x77, i32.rotr 0x78, i64.rotl 0x89,
\* i64.rotr 0x8A among them).
C6_NumericOpcodes ==
    (EncodedInstruction /\ input.arg.op \notin OtherOps
        /\ IsIn(WasmNumeric, Mnemonic(input.arg))) =>
            /\ ~output.panic
            /\ output.out = <<WasmNumericOpcode(Mnemonic(input.arg))>>

\* C6, the part of it the code satisfies: the same for every variant other
\* than the two rotations.
C6_NumericOpcodesButRotations ==
    (EncodedInstruction /\ input.arg.op \notin OtherOps
        /\ input.arg.op \notin {"LeftRotation", "RightRotation"}
        /\ IsIn(WasmNumeric, Mnemonic(input.arg))) =>
            /\ ~output.panic
            /\ output.out = <<WasmNumericOpcode(Mnemonic(input.arg))>>

\* C7: a Load or Store that stands for a Wasm instruction is encoded as the
\* opcode of that instruction in the table 0x28..0x3E, then the alignment as
\* an unsigned LEB128, then the offset as an unsigned LEB128, and nothing
\* else.
C7_LoadStoreEncoding ==
    (EncodedInstruction /\ input.arg.op \in {"Load", "Store"}
        /\ IsIn(WasmMemory, MemoryMnemonic(input.arg))) =>
            /\ ~output.panic
            /\ output.out # <<>>
            /\ output.out[1] = WasmMemoryOpcode(MemoryMnemonic(input.arg))
            /\ LET alignment == DecodeUnsigned(Tail(output.out), 5)
                   offset == DecodeUnsigned(DropFirst(output.out, 1 + alignment.n), 5)
               IN  /\ alignment.ok /\ alignment.val = input.arg.mem.alignment
                   /\ offset.ok /\ offset.val = input.arg.mem.offset
                   /\ Len(output.out) = 1 + alignment.n + offset.n

\* C7 witness: i64.load32_u with a two-byte offset was encoded
C7_Witness ==
    /\ EncodedInstruction
    /\ input.arg.op = "Load"
    /\ MemoryMnemonic(input.arg) = "i64.load32_u"
    /\ input.arg.mem.offset >= 128
    /\ input.arg.mem.alignment > 0
    /\ Len(output.out) = 4

\* whether instruction i is, or holds in one of its bodies, a Load or Store
\* that stands for no Wasm instruction
RECURSIVE HoldsImpossible(_)
AnyImpossible(instrs) == \E k \in 1..Len(instrs) : HoldsImpossible(instrs[k])

HoldsImpossible(i) ==
    CASE i.op \in {"Load", "Store"} -> ~IsIn(WasmMemory, MemoryMnemonic(i))
      [] i.op \in {"Block", "Loop"} -> AnyImpossible(i.instrs)
      [] i.op = "If" ->
            \/ AnyImpossible(i.accept_instrs)
            \/ i.reject_instrs # None /\ AnyImpossible(i.reject_instrs[1])
      [] OTHER -> FALSE

\* the StorageType of a Load's or Store's storage field, which is not None
SubStorage(i) == IF i.op = "Load" THEN i.storage[1][2] ELSE i.storage[1]

\* C8: encoding a Load or Store of i32 with 32-bit sub-storage, or of f32 or
\* f64 with any sub-storage, panics with no byte of that instruction
\* written; an instruction or a code entry that holds one panics too, a code
\* entry with nothing written to the caller's writer; and a code entry that
\* holds none does not panic.
C8_ImpossiblePanics ==
    /\ (EncodedInstruction /\ input.arg.op \in {"Load", "Store"}
            /\ \/ input.arg.ty = "Int" /\ input.arg.storage # None
                    /\ SubStorage(input.arg) = "Int"
               \/ input.arg.ty \in {"Float", "Double"} /\ input.arg.storage # None)
          => output.panic /\ output.out = <<>> /\ output.ret = 0
    /\ (EncodedInstruction /\ HoldsImpossible(input.arg)) => output.panic
    /\ (applied /\ input.fn = "encode_code") =>
          IF AnyImpossible(input.arg.body)
          THEN output.panic /\ output.out = <<>>
          ELSE ~output.panic

\* C8 witness: the encoding of i32 load with a signed 32-bit sub-storage
\* panicked
C8_Witness ==
    /\ EncodedInstruction
    /\ input.arg = ImpossibleLoad
    /\ output.panic

(***************************************************************************)
(* LEB128, read bit by bit.                                                *)
(***************************************************************************)
\* bit i (from 0) of the two's-complement form of v = [hi, mid, lo]
Bit(v, i) ==
    IF i < 24 THEN (v.lo \div 2^i) % 2
    ELSE IF i < 48 THEN (v.mid \div 2^(i - 24)) % 2
    ELSE (v.hi \div 2^(i - 48)) % 2

\* the k-th group (from 1) of 7 bits of v, least significant group first
Group(v, k) ==
    Bit(v, 7 * k - 7) + 2 * Bit(v, 7 * k - 6) + 4 * Bit(v, 7 * k - 5)
        + 8 * Bit(v, 7 * k - 4) + 16 * Bit(v, 7 * k - 3) + 32 * Bit(v, 7 * k - 2)
        + 64 * Bit(v, 7 * k - 1)

\* the number of groups a 64-bit value has
Groups64 == 1..10

\* C11: for every u32 value encode_u32 does not panic and returns the number
\* of bytes it emitted, at most 5; byte k carries the k-th group of 7 bits of
\* the value, least significant first; every byte but the last has its high
\* bit set and the last has not; no non-zero group is left out; and the
\* encoding is the shortest one: the last byte is zero only when the value
\* is zero.
C11_ShortestUnsignedLeb128 ==
    (applied /\ input.fn = "encode_u32") =>
        LET n == Len(output.out)
        IN  /\ ~output.panic
            /\ output.ret = n
            /\ n \in 1..5
            /\ \A k \in 1..n :
                  /\ output.out[k] % 128 = Group(input.arg, k)
                  /\ (output.out[k] >= 128) = (k < n)
            /\ \A k \in Groups64 : k > n => Group(input.arg, k) = 0
            /\ n > 1 => output.out[n] # 0

\* C11 witness: u32::MAX was encoded as FF FF FF FF 0F
C11_Witness ==
    /\ applied /\ input.fn = "encode_u32"
    /\ input.arg = [hi |-> 0, mid |-> 255, lo |-> Limb - 1]
    /\ output.out = <<\hFF, \hFF, \hFF, \hFF, \h0F>>

\* the bit positions of a 64-bit value
Bits64 == 0..63

\* whether the low 7 * n bits of v, sign-extended, are v
FitsSigned(v, n) == \A i \in Bits64 : i >= 7 * n => Bit(v, i) = Bit(v, 7 * n - 1)

\* C12: for every i32 and i64 value encode_i32 / encode_i64 do not panic and
\* return the number of bytes they emitted, at most 5 for an i32 and 10 for
\* an i64; byte k carries the k-th group of 7 bits of the two's-complement
\* value; every byte but the last has its high bit set and the last has not;
\* the bits left out are copies of the sign bit of the last group; no
\* shorter encoding would do; and i64.const -1 is 42 7F.
C12_ShortestSignedLeb128 ==
    /\ (applied /\ input.fn \in {"encode_i32", "encode_i64"}) =>
          LET n == Len(output.out)
          IN  /\ ~output.panic
              /\ output.ret = n
              /\ n >= 1
              /\ n <= (IF input.fn = "encode_i32" THEN 5 ELSE 10)
              /\ \A k \in 1..n :
                    /\ output.out[k] % 128 = Group(input.arg, k)
                    /\ (output.out[k] >= 128) = (k < n)
              /\ FitsSigned(input.arg, n)
              /\ n > 1 => ~FitsSigned(input.arg, n - 1)
    /\ (EncodedInstruction /\ input.arg.op = "Const"
            /\ input.arg.literal = [kind |-> "Long", val |-> -1])
          => output = [out |-> <<\h42, \h7F>>, ret |-> 2, panic |-> FALSE]

\* C12 witness: i64::MIN was encoded in ten bytes, the last one 7F
C12_Witness ==
    /\ applied /\ input.fn = "encode_i64"
    /\ input.arg = [hi |-> -32768, mid |-> 0, lo |-> 0]
    /\ Len(output.out) = 10
    /\ output.out[10] = \h7F

\* the tag byte the Wasm binary format gives a value type
ValTypeTag(ty) ==
    CASE ty = "I32" -> \h7F
      [] ty = "I64" -> \h7E
      [] ty = "F32" -> \h7D
      [] ty = "F64" -> \h7C

MutabilityByte(mutable) == IF mutable THEN \h01 ELSE \h00

\* C15: a GlobalType is encoded as its value-type tag byte followed by 0x00
\* when immutable and 0x01 when mutable; a global section of globals
\* initialised by i32.const 42 is 06, its size, the count, and per global the
\* two bytes of its type and 41 2A 0B; for one immutable i32 global that is
\* 06 06 01 7F 00 41 2A 0B.
C15_GlobalType ==
    /\ (applied /\ input.fn = "GlobalType::encode") =>
          /\ ~output.panic
          /\ output.out = <<ValTypeTag(input.arg.ty), MutabilityByte(input.arg.mutable)>>
    /\ (applied /\ input.fn = "encode_global_section") =>
          /\ ~output.panic
          /\ output.out =
                <<\h06, 1 + 5 * Len(input.arg), Len(input.arg)>>
                    \o Concat([k \in 1..Len(input.arg) |->
                                <<ValTypeTag(input.arg[k].ty.ty),
                                  MutabilityByte(input.arg[k].ty.mutable),
                                  \h41, \h2A, \h0B>>])
    /\ (applied /\ input.fn = "encode_global_section"
            /\ input.arg = <<[ty |-> [ty |-> "I32", mutable |-> FALSE],
                              init |-> <<[op |-> "Const",
                                          literal |-> [kind |-> "Int", val |-> 42]]>>]>>)
          => output.out = <<\h06, \h06, \h01, \h7F, \h00, \h41, \h2A, \h0B>>

\* C15 witness: the section of one immutable i32 global was encoded
C15_Witness ==
    /\ applied /\ input.fn = "encode_global_section"
    /\ Len(input.arg) = 1
    /\ input.arg[1].ty = [ty |-> "I32", mutable |-> FALSE]
    /\ output.out = <<\h06, \h06, \h01, \h7F, \h00, \h41, \h2A, \h0B>>

\* bytes read as Limits: a flag byte, the minimum and, when
\* the flag is 0x01, the maximum, each an unsigned LEB128;
\* [ok, min, max, n |-> bytes read]
ReadLimits(bytes) ==
    LET min == DecodeUnsigned(Tail(bytes), 5)
        max == DecodeUnsigned(DropFirst(bytes, 1 + min.n), 5)
    IN  IF bytes = <<>> \/ bytes[1] \notin {\h00, \h01} \/ ~min.ok
        THEN [ok |-> FALSE, min |-> 0, max |-> None, n |-> 0]
        ELSE IF bytes[1] = \h00
        THEN [ok |-> TRUE, min |-> min.val, max |-> None, n |-> 1 + min.n]
        ELSE [ok |-> max.ok, min |-> min.val, max |-> Some(max.val),
              n |-> 1 + min.n + max.n]

\* bytes are exactly the encoding of the Limits lim
IsLimits(bytes, lim) ==
    LET read == ReadLimits(bytes)
    IN  /\ read.ok
        /\ read.n = Len(bytes)
        /\ read.min = lim.min
        /\ read.max = lim.max
        /\ bytes[1] = (IF lim.max = None THEN \h00 ELSE \h01)

\* C16: Limits without a maximum are 0x00 and LEB128(min), Limits with a
\* maximum 0x01, LEB128(min) and LEB128(max); a MemoryType is its Limits, a
\* TableType 0x70 and its Limits; a memory section is 05, its size, the
\* count and the Limits of each memory, so that one memory {min 0, max 1}
\* gives 05 04 01 01 00 01.
C16_Limits ==
    /\ (applied /\ input.fn = "Limits::encode") =>
          ~output.panic /\ IsLimits(output.out, input.arg)
    /\ (applied /\ input.fn = "MemoryType::encode") =>
          ~output.panic /\ IsLimits(output.out, input.arg.lim)
    /\ (applied /\ input.fn = "TableType::encode") =>
          /\ ~output.panic
          /\ output.out # <<>>
          /\ output.out[1] = \h70
          /\ IsLimits(Tail(output.out), input.arg.lim)
    /\ (applied /\ input.fn = "encode_memory_section") =>
          LET parsed == ParseFrames(output.out)
          IN  /\ ~output.panic
              /\ Len(parsed) = 1
              /\ parsed[1].complete
              /\ parsed[1].id = \h05
              /\ parsed[1].payload =
                    <<Len(input.arg)>>
                        \o Concat([k \in 1..Len(input.arg) |->
                                    LimitsEncode(input.arg[k].lim).out])
    /\ (applied /\ input.fn = "encode_memory_section"
            /\ input.arg = <<[lim |-> [min |-> 0, max |-> Some(1)]]>>)
          => output.out = <<\h05, \h04, \h01, \h01, \h00, \h01>>

\* C16 witness: the section of one memory {min 0, max 1} was encoded
C16_Witness ==
    /\ applied /\ input.fn = "encode_memory_section"
    /\ input.arg = <<[lim |-> [min |-> 0, max |-> Some(1)]]>>
    /\ output.out = <<\h05, \h04, \h01, \h01, \h00, \h01>>

\* C17: the start section of function index f is the section id 8, then the
\* number of bytes of the unsigned LEB128 of f, then that LEB128 and nothing
\* else: no vector count precedes the index.
C17_StartSection ==
    (applied /\ input.fn = "encode_start_section") =>
        LET size == DecodeUnsigned(Tail(output.out), 5)
            payload == DropFirst(output.out, 1 + size.n)
            index == DecodeUnsigned(payload, 5)
        IN  /\ ~output.panic
            /\ output.out # <<>>
            /\ output.out[1] = 8
            /\ size.ok /\ index.ok
            /\ index.val = input.arg
            /\ index.n = Len(payload)
            /\ size.val = Len(payload)
            /\ payload = Leb128Unsigned(input.arg)

\* C17 witness: the start section of function 16384 was encoded as
\* 08 03 80 80 01
C17_Witness ==
    /\ applied /\ input.fn = "encode_start_section"
    /\ input.arg = 16384
    /\ output.out = <<\h08, \h03, \h80, \h80, \h01>>

\* the bytes of a run of instructions, one after the other
BodyBytes(instrs) == Concat([k \in 1..Len(instrs) |-> InstructionEncode(instrs[k]).out])

\* C18: an If whose encoding does not panic is 0x04, its block type, the
\* accept body, then 0x05 and the reject body exactly when a reject branch
\* is present (an empty one too), then one 0x0B; with no reject branch the
\* accept body is followed by the 0x0B at once.
C18_IfElse ==
    (EncodedInstruction /\ input.arg.op = "If" /\ ~HoldsImpossible(input.arg)) =>
        LET head == <<\h04>> \o BlockTypeEncode(input.arg.blockty).out
                        \o BodyBytes(input.arg.accept_instrs)
        IN  /\ ~output.panic
            /\ IF input.arg.reject_instrs = None
               THEN output.out = head \o <<\h0B>>
               ELSE output.out = head \o <<\h05>>
                                    \o BodyBytes(input.arg.reject_instrs[1]) \o <<\h0B>>

\* C18 witness: an If with an empty reject branch was encoded as 04 40 05 0B
C18_Witness ==
    /\ EncodedInstruction
    /\ input.arg.op = "If"
    /\ input.arg.reject_instrs = Some(<<>>)
    /\ output.out = <<\h04, \h40, \h05, \h0B>>

\* n unsigned LEB128 values read from the head of bytes:
\* [ok, vals, rest |-> the bytes after them]
RECURSIVE ReadUnsigneds(_, _)
ReadUnsigneds(bytes, n) ==
    IF n = 0 THEN [ok |-> TRUE, vals |-> <<>>, rest |-> bytes]
    ELSE LET first == DecodeUnsigned(bytes, 5)
             others == ReadUnsigneds(DropFirst(bytes, first.n), n - 1)
         IN  IF ~first.ok THEN [ok |-> FALSE, vals |-> <<>>, rest |-> bytes]
             ELSE [ok |-> others.ok, vals |-> <<first.val>> \o others.vals,
                   rest |-> others.rest]

\* C19: a BranchTable is 0x0E, the unsigned LEB128 of the number of its
\* labels, the labels as unsigned LEB128 in their order, and last the
\* default label, with nothing after it; labels [1, 2] with default 0 give
\* 0E 02 01 02 00.
C19_BranchTable ==
    /\ (EncodedInstruction /\ input.arg.op = "BranchTable") =>
          LET count == DecodeUnsigned(Tail(output.out), 5)
              labels == ReadUnsigneds(DropFirst(output.out, 1 + count.n),
                                      Len(input.arg.labels))
              operand == DecodeUnsigned(labels.rest, 5)
          IN  /\ ~output.panic
              /\ output.ret = Len(output.out)
              /\ output.out[1] = \h0E
              /\ count.ok /\ count.val = Len(input.arg.labels)
              /\ labels.ok /\ labels.vals = input.arg.labels
              /\ operand.ok /\ operand.val = input.arg.operand
              /\ operand.n = Len(labels.rest)
    /\ (EncodedInstruction /\ input.arg.op = "BranchTable"
            /\ input.arg.labels = <<1, 2>> /\ input.arg.operand = 0)
          => output.out = <<\h0E, \h02, \h01, \h02, \h00>>

\* C19 witness: a table of three labels that take five bytes was encoded
\* with the count 3
C19_Witness ==
    /\ EncodedInstruction
    /\ input.arg.op = "BranchTable"
    /\ input.arg.labels = <<300, 0, 128>>
    /\ output.out[2] = 3
    /\ Len(output.out) > 7

\* the block type a reader of the Wasm binary format finds in bytes: 0x40
\* is the empty type, a value-type tag a single result, and anything else a
\* signed LEB128 that must be a non-negative type index
ReadBlockType(bytes) ==
    LET index == DecodeUnsigned(bytes, 5)
    IN  IF bytes = <<\h40>> THEN [kind |-> "Empty"]
        ELSE IF Len(bytes) = 1 /\ bytes[1] \in {\h7F, \h7E, \h7D, \h7C}
        THEN [kind |-> "Type",
              ty |-> CHOOSE t \in {"I32", "I64", "F32", "F64"} : ValTypeTag(t) = bytes[1]]
        ELSE IF index.ok /\ index.n = Len(bytes) /\ bytes[Len(bytes)] < \h40
        THEN [kind |-> "TypeIdx", idx |-> index.val]
        ELSE [kind |-> "Invalid"]

\* C20: a BlockType is 0x40 when empty, the tag byte of its value type for a
\* single result, and otherwise the signed LEB128 of its non-negative type
\* index, which is never the byte 0x40 nor a tag byte alone (index 64 is
\* C0 00); read back, the bytes give the block type that was encoded, so
\* distinct block types have distinct encodings.
C20_BlockType ==
    (applied /\ input.fn = "BlockType::encode") =>
        /\ ~output.panic
        /\ output.ret = Len(output.out)
        /\ input.arg.kind = "Empty" => output.out = <<\h40>>
        /\ input.arg.kind = "Type" => output.out = <<ValTypeTag(input.arg.ty)>>
        /\ input.arg.kind = "TypeIdx" =>
              /\ output.out \notin {<<\h40>>, <<\h7F>>, <<\h7E>>, <<\h7D>>, <<\h7C>>}
              /\ FitsSigned(ToWide(input.arg.idx), Len(output.out))
              /\ \A k \in 1..Len(output.out) :
                    /\ output.out[k] % 128 = Group(ToWide(input.arg.idx), k)
                    /\ (output.out[k] >= 128) = (k < Len(output.out))
              /\ input.arg.idx = 64 => output.out = <<\hC0, \h00>>
        /\ ReadBlockType(output.out) = input.arg

\* C20 witness: the type index 64 was encoded as C0 00
C20_Witness ==
    /\ applied /\ input.fn = "BlockType::encode"
    /\ input.arg = [kind |-> "TypeIdx", idx |-> 64]
    /\ output.out = <<\hC0, \h00>>

(***************************************************************************)
(* C21: encode_custom_section writes the id 0, then the unsigned LEB128 of *)
(* the payload length, then the payload (the encoded name followed by the  *)
(* data): the length written is the number of payload bytes that follow    *)
(* it, and the payload ends with the data after at least the name's        *)
(* length prefix.                                                          *)
(***************************************************************************)
C21_CustomSectionLength ==
    (applied /\ input.fn = "encode_custom_section") =>
        /\ ~output.panic
        /\ Len(output.out) >= 2
        /\ output.out[1] = 0
        /\ LET size == DecodeUnsigned(DropFirst(output.out, 1), 5)
               payload == DropFirst(output.out, 1 + size.n)
           IN  /\ size.ok
               /\ size.val = Len(payload)
               /\ Len(payload) >= 1 + Len(AsBytes(input.arg.name)) + Len(input.arg.data)
               /\ DropFirst(payload, Len(payload) - Len(input.arg.data)) = input.arg.data

\* the number of Block, Loop and If instructions in instrs and in their
\* bodies, at every depth
RECURSIVE BlockCount(_)
BlockCount(instrs) ==
    IF instrs = <<>> THEN 0
    ELSE LET i == Head(instrs)
             here == CASE i.op \in {"Block", "Loop"} -> 1 + BlockCount(i.instrs)
                       [] i.op = "If" ->
                            1 + BlockCount(i.accept_instrs)
                              + (IF i.reject_instrs = None THEN 0
                                 ELSE BlockCount(i.reject_instrs[1]))
                       [] OTHER -> 0
         IN  here + BlockCount(Tail(instrs))

\* a reader of instruction bytes that keeps the stack of the constructs
\* still open: 0x02, 0x03 and 0x04 open one after their block type, 0x05 is
\* legal once inside an if, 0x0B closes the innermost.  It knows the
\* opcodes without immediates 00 01 1A 92 and those with one LEB128
\* immediate 20 3F FC.  [ok |-> the bytes were read to the end and nothing
\* is left open, ends |-> the number of 0x0B read as end markers]; the
\* bytes of an Expr are read with the Expr itself open, written -1
RECURSIVE ScanEnds(_, _, _)
ScanEnds(bytes, open, ends) ==
    IF bytes = <<>> THEN [ok |-> open = <<>>, ends |-> ends]
    ELSE LET op == Head(bytes)
             rest == Tail(bytes)
             imm == DecodeUnsigned(rest, 5)
             bad == [ok |-> FALSE, ends |-> ends]
         IN  CASE op \in {\h02, \h03, \h04} ->
                    IF imm.ok THEN ScanEnds(DropFirst(rest, imm.n), <<op>> \o open, ends)
                    ELSE bad
               [] op = \h05 ->
                    IF open # <<>> /\ Head(open) = \h04
                    THEN ScanEnds(rest, <<\h05>> \o Tail(open), ends)
                    ELSE bad
               [] op = \h0B ->
                    IF open # <<>> THEN ScanEnds(rest, Tail(open), ends + 1) ELSE bad
               [] op \in {\h00, \h01, \h1A, \h92} -> ScanEnds(rest, open, ends)
               [] op \in {\h20, \h3F, \hFC} ->
                    IF imm.ok THEN ScanEnds(DropFirst(rest, imm.n), open, ends) ELSE bad
               [] OTHER -> bad

\* the opcode of a Block or a Loop
BlockOpcode(i) == IF i.op = "Block" THEN \h02 ELSE \h03

(***************************************************************************)
(* C22: a Block or Loop whose encoding does not panic is its opcode, its   *)
(* block type, the encodings of its nested instructions in their order     *)
(* and one 0x0B; an Expr is the encodings of its instructions in their     *)
(* order and one 0x0B.  Read back, the end markers of a Block, Loop, If or *)
(* Expr are properly nested, each closing an open construct, with nothing  *)
(* left open, and there are as many as block-structured instructions at    *)
(* all depths, plus one for an Expr.                                       *)
(***************************************************************************)
C22_EndMarkersNested ==
    /\ (EncodedInstruction /\ input.arg.op \in {"Block", "Loop", "If"}
            /\ ~HoldsImpossible(input.arg)) =>
          LET scan == ScanEnds(output.out, <<>>, 0)
          IN  /\ ~output.panic
              /\ input.arg.op # "If" =>
                    output.out = <<BlockOpcode(input.arg)>>
                                    \o BlockTypeEncode(input.arg.blockty).out
                                    \o BodyBytes(input.arg.instrs) \o <<\h0B>>
              /\ scan.ok
              /\ scan.ends = BlockCount(<<input.arg>>)
    /\ (applied /\ input.fn = "Expr::encode" /\ ~AnyImpossible(input.arg)) =>
          LET scan == ScanEnds(output.out, <<-1>>, 0)
          IN  /\ ~output.panic
              /\ output.out = BodyBytes(input.arg) \o <<\h0B>>
              /\ scan.ok
              /\ scan.ends = BlockCount(input.arg) + 1

\* C22 witness: a Block holding another block-structured instruction after
\* a nop was encoded, and its bytes end with the two end markers
C22_Witness ==
    /\ EncodedInstruction
    /\ input.arg.op = "Block"
    /\ Len(input.arg.instrs) = 2
    /\ BlockCount(<<input.arg>>) = 2
    /\ ~output.panic
    /\ SubSeq(output.out, Len(output.out) - 1, Len(output.out)) = <<\h0B, \h0B>>

(***************************************************************************)
(* C23: the Limits the encoder serializes with a maximum have a maximum    *)
(* that is at least the minimum: the bytes Limits::encode, MemoryType::    *)
(* encode and TableType::encode write never read back as 0x01, a minimum   *)
(* and a maximum below that minimum.                                       *)
(***************************************************************************)
C23_MaxAtLeastMin ==
    (applied /\ input.fn \in {"Limits::encode", "MemoryType::encode", "TableType::encode"}) =>
        LET bytes == IF input.fn = "TableType::encode"
                     THEN Tail(output.out) ELSE output.out
            read == ReadLimits(bytes)
        IN  (read.ok /\ read.max # None) => read.max[1] >= read.min

(***************************************************************************)
(* C24: when the writer takes all the bytes it is offered, the count that  *)
(* Instruction::encode or Expr::encode returns is the number of bytes the  *)
(* call appended to the writer.                                            *)
(***************************************************************************)
C24_CountIsBytesAppended ==
    (applied /\ input.fn \in {"Instruction::encode", "Expr::encode"} /\ ~output.panic) =>
        output.ret = Len(output.out)

\* the instructions that are a SaturateTruncate or hold one in a body
RECURSIVE HoldsSaturate(_)
AnySaturate(instrs) == \E k \in 1..Len(instrs) : HoldsSaturate(instrs[k])

HoldsSaturate(i) ==
    CASE i.op = "SaturateTruncate" -> TRUE
      [] i.op \in {"Block", "Loop"} -> AnySaturate(i.instrs)
      [] i.op = "If" ->
            \/ AnySaturate(i.accept_instrs)
            \/ i.reject_instrs # None /\ AnySaturate(i.reject_instrs[1])
      [] OTHER -> FALSE

\* the count is the number of bytes appended for every instruction and Expr
\* that holds no SaturateTruncate
C24_CountButSaturate ==
    /\ (EncodedInstruction /\ ~output.panic /\ ~HoldsSaturate(input.arg)) =>
          output.ret = Len(output.out)
    /\ (applied /\ input.fn = "Expr::encode" /\ ~output.panic /\ ~AnySaturate(input.arg)) =>
          output.ret = Len(output.out)

\* the bytes of the module's encoding that Module::encode has offered to
\* the writer when it returns Ok: the prologue and every frame it built;
\* OfferedUpTo(n) is the prologue and the first n frames
OfferedUpTo(n) ==
    MAGIC \o VERSION
        \o Concat([k \in 1..n |->
                    <<frames[k].id>> \o Leb128Unsigned(frames[k].size) \o frames[k].data])

OfferedBytes == OfferedUpTo(Len(frames))

(***************************************************************************)
(* C25: whenever Module::encode returns Ok, the sink has received every    *)
(* byte of the module's encoding in order, also when a write call took     *)
(* fewer bytes than it was offered and returned that smaller count.        *)
(***************************************************************************)
C25_OkMeansAllBytes ==
    result.status = "Ok" => sink = OfferedBytes

\* Ok with all the bytes in the sink when no write call was short
C25_OkMeansAllBytesUnlessShort ==
    (result.status = "Ok" /\ shortsLeft = MaxShort) => sink = OfferedBytes

\* whether the section with this id holds an instruction that cannot be
\* encoded: in a global's initializer, an element or data segment's offset,
\* or a function body
ImpossibleIn(m, id) ==
    CASE id = 6 -> \E k \in 1..Len(m.globals) : AnyImpossible(m.globals[k].init)
      [] id = 9 -> \E k \in 1..Len(m.elements) : AnyImpossible(m.elements[k].offset)
      [] id = 10 -> \E k \in 1..Len(m.code) : AnyImpossible(m.code[k].body)
      [] id = 11 -> \E k \in 1..Len(m.data) : AnyImpossible(m.data[k].offset)
      [] OTHER -> FALSE

(***************************************************************************)
(* C26: in every state of Module::encode the sink holds the start of the   *)
(* prologue followed by the frames whose payload has been computed: the    *)
(* frames before the last computed one are in it whole, and it holds       *)
(* nothing else.  No frame, whole or partial, of a section that holds an   *)
(* impossible instruction ever reaches the sink, and when encode aborts on *)
(* one the sink is exactly the prologue and the whole frames of the        *)
(* sections before it.                                                     *)
(***************************************************************************)
C26_ScratchBufferFirst ==
    LET parsed == SinkFrames
    IN  /\ IsPrefix(sink, OfferedBytes)
        /\ frames # <<>> => IsPrefix(OfferedUpTo(Len(frames) - 1), sink)
        /\ \A k \in 1..Len(parsed) : ~ImpossibleIn(module, parsed[k].id)
        /\ result.status = "Panic" =>
              /\ sink = OfferedBytes
              /\ Len(parsed) = Len(frames)
              /\ \A k \in 1..Len(parsed) : parsed[k].complete
              /\ \E id \in StandardIds :
                    /\ ImpossibleIn(module, id)
                    /\ \A k \in 1..Len(parsed) : parsed[k].id < id
                    /\ \A j \in 1..(id - 1) :
                          (Collection(module, j) # <<>>) =>
                              \E k \in 1..Len(parsed) : parsed[k].id = j

\* C26 witness: encode aborted on the impossible instruction of a function
\* body with the nine frames of the sections before the code section in
\* the sink
C26_Witness ==
    /\ result.status = "Panic"
    /\ ImpossibleIn(module, 10)
    /\ Len(SinkFrames) = 9
    /\ SinkFrames[9].id = 9
    /\ SinkFrames[9].complete

====
